---- MODULE Spec2Model ----
(***************************************************************************)
(* The adaptive letter-introduction and turn engine of morse-learn         *)
(* (GameSpace in src/scripts/game-space.js): mastery scores, active pool,  *)
(* word queue, input gate, asynchronous turns and their timers.            *)
(*                                                                         *)
(* Spec      the sessions: initial words, submissions, resumptions, timers *)
(* LiveSpec  the same sessions with the awaited feedback sounds ending     *)
(* FindSpec  findAWord on its own, over score maps, pools and corpora      *)
(* HintSpec  playHints on its own, over words, cursors and mistake counts  *)
(* GrowSpec  checkAddLetters on its own, over score maps, pools and streaks *)
(* ChainSpec the sessions with the playHints calls of the hint chains      *)
(* RestartSpec the sessions with create run again on the same controller   *)
(*                                                                         *)
(* and, around GameSpace:                                                  *)
(* BoardSpec    MorseBoard (src/scripts/morse-board.js): clicks, keys and  *)
(*              the debounce and notification timers                       *)
(* TitleSpec    TitleState (src/unnamed/part_000): consent, settings       *)
(*              toggles and the start of the game                          *)
(* PracticeSpec PracticeState (src/scripts/practice-state.js): sessions    *)
(* MetricSpec   the progress percentage of the analytics, client and       *)
(*              server (src/api-service/server.js)                         *)
(***************************************************************************)
EXTENDS Integers, Sequences, FiniteSets, TLC

(***************************************************************************)
(* Program constants.                                                      *)
(***************************************************************************)
LEARNED_THRESHOLD == 2
CONSECUTIVE_CORRECT == 3
howManyWordsToStart == 3

(***************************************************************************)
(* Bounds of the model.                                                    *)
(***************************************************************************)
\* number of checkMatch invocations (commits of the Morse board) explored
MaxCalls == 3

\* number of suspended asynchronous calls a new turn may be started next to
MaxInFlight == 2

\* number of words findAWord is asked for in a row (FindSpec)
MaxWords == 2

\* largest mistake count playHints is called with (HintSpec)
MaxAttempts == 8

\* number of checkMatch invocations explored under fairness (LiveSpec)
MaxLiveCalls == 1

\* largest streak a checkAddLetters timer is fired with (GrowSpec)
MaxStreak == 4

(***************************************************************************)
(* The course: ordered symbols, the fallback word, the corpora explored.   *)
(***************************************************************************)
\* course.lettersToLearn, a five-symbol extract of the alphabet course order
Course == <<"e", "t", "a", "i", "c">>

\* a key of the saved score map that is not a symbol of the course
ExtraKey == "x"

\* Object.keys order of the score map: course order, foreign keys last
KeyOrder == Course \o <<ExtraKey>>

\* the value of an out-of-range array read (word.myLetters[i] past the end)
undefined == "undefined"

\* the word findAWord substitutes when the scan finds none
defaultWord == <<"c", "a", "t">>

\* course.words: the corpora a session can be started with
Corpora == { << >>, << <<"a">>, <<"i", "t">> >> }

\* what the Morse board can commit: a decoded symbol or "" for no match
TypedLetters == {Course[i] : i \in DOMAIN Course} \cup {""}

Range(s) == {s[i] : i \in DOMAIN s}

\* _.shuffle(words): every permutation of the corpus
shuffle(words) == {s \in [DOMAIN words -> Range(words)] : Range(s) = Range(words)}

\* the score maps a session can be loaded with (localStorage[course.storageKey])
ScoreMap(e, t, a, i, c) == [k \in Range(Course) |->
    CASE k = "e" -> e [] k = "t" -> t [] k = "a" -> a [] k = "i" -> i [] OTHER -> c]

WithExtra(m, v) == [k \in DOMAIN m \cup {ExtraKey} |-> IF k = ExtraKey THEN v ELSE m[k]]

SavedMaps ==
    { ScoreMap(0, 0, 0, 0, 0),
      ScoreMap(0, 0, -(LEARNED_THRESHOLD + 2), 0, 0),
      ScoreMap(0, 0, 0, LEARNED_THRESHOLD, 0),
      ScoreMap(LEARNED_THRESHOLD, LEARNED_THRESHOLD + 1, LEARNED_THRESHOLD + 2, 0, 0),
      ScoreMap(LEARNED_THRESHOLD, LEARNED_THRESHOLD, LEARNED_THRESHOLD - 1,
               LEARNED_THRESHOLD, LEARNED_THRESHOLD),
      WithExtra(ScoreMap(LEARNED_THRESHOLD, LEARNED_THRESHOLD, LEARNED_THRESHOLD,
                         LEARNED_THRESHOLD, LEARNED_THRESHOLD), LEARNED_THRESHOLD),
      WithExtra(ScoreMap(LEARNED_THRESHOLD, LEARNED_THRESHOLD, LEARNED_THRESHOLD - 1,
                         LEARNED_THRESHOLD, LEARNED_THRESHOLD), LEARNED_THRESHOLD) }

VARIABLES
    letterScoreDict,        \* symbol -> mastery score (in memory)
    currentLettersInPlay,   \* the active pool, a sequence
    currentWords,           \* the word queue: [myLetters, currentLetterIndex]
    currentWordIndex,       \* 0-based index of the current word
    mistakeCount,
    consecutiveCorrect,
    inputReady,             \* the input gate
    have_speech_assistive,  \* game setting: feedback sounds are awaited
    have_audio,             \* game setting: Morse sounds are played
    words,                  \* course.words of this session
    analyticsData,          \* localStorage analyticsData
    saved,                  \* localStorage[course.storageKey], the persisted score map
    played,                 \* the hint players called by the last playHints explored
    turns,                  \* suspended async calls (checkMatch, createFirstWord):
                            \* pc, the locals word and letter, and attempts, the
                            \* mistake count the call produced (wrong turns)
    addLettersTimers,       \* pending 200 ms timers of checkAddLetters
    wordsTimer,             \* the 500 ms timer of create is pending
    gameState,              \* Phaser state: "game" or "congratulations"
    calls,                  \* number of checkMatch invocations so far
    last,                   \* outcome of the last checkMatch step (op) and the last
                            \* return value of checkAllLettersLearned (learned)
    morseBoard,             \* MorseBoard: output (the output field's value) and the
                            \* timer handles timeout, outputStyleTimeout and
                            \* outputStyleHideTimeout
    boardTimers,            \* pending timers of the board: id, fn, due (delay left)
    boardLog,               \* entered: the dots and dashes entered and not deleted
                            \* since the last commit; delivered: the detail handed to
                            \* onCommit by the last step, if any
    titleState,             \* TitleState: hasStarted, have_audio, have_speech_assistive
    localStorage,           \* localStorage: have_audio, have_speech_assistive, intro
    titleRun,               \* the title screen: consent (the consent callback has run
                            \* setupListeners), listening (doStart's listeners are
                            \* attached), events (start events so far), thens and
                            \* timers (pending steps of start), stateStarts (the
                            \* states game.state.start was called with)
    practiceState,          \* PracticeState: sessionPhrases, currentPhraseIndex,
                            \* currentCharIndex, totalErrors, sessionComplete, and the
                            \* counts of this session: inputs (calls of handleInput),
                            \* accepted (calls past its guards) and finished (runs
                            \* of finishSession)
    metrics                 \* the analytics payload: the progress map sendProgress
                            \* read, its courseMetrics.alphabet, whether the payload
                            \* was posted without courseMetrics (legacy), and the
                            \* server's normalized alphabet metric

vars == <<letterScoreDict, currentLettersInPlay, currentWords, currentWordIndex,
          mistakeCount, consecutiveCorrect, inputReady,
          have_speech_assistive, have_audio,
          words, analyticsData, saved, played, turns, addLettersTimers, wordsTimer,
          gameState, calls, last,
          morseBoard, boardTimers, boardLog, titleState, localStorage, titleRun,
          practiceState, metrics>>

\* the state of GameSpace and of its timers and turns
gameSpaceVars == <<letterScoreDict, currentLettersInPlay, currentWords, currentWordIndex,
                   mistakeCount, consecutiveCorrect, inputReady, words, analyticsData,
                   saved, played, turns, addLettersTimers, wordsTimer, gameState, calls,
                   last>>

\* the state outside GameSpace: the Morse board, the title screen, the
\* practice sessions and the analytics payload
boardVars == <<morseBoard, boardTimers, boardLog>>
titleVars == <<titleState, localStorage, titleRun>>
outside == <<boardVars, titleVars, practiceState, metrics>>

\* a timer handle that names no timer (this.timeout = null, or a field not set yet)
noTimer == 0

\* localStorage.getItem of a key that was never set
null == "null"

\* the MorseBoard after its constructor, with no timer pending and nothing entered
newMorseBoard ==
    [output |-> << >>, timeout |-> noTimer, outputStyleTimeout |-> noTimer,
     outputStyleHideTimeout |-> noTimer]

newBoardLog == [entered |-> << >>, delivered |-> << >>]

\* the TitleState after its constructor: the setting fields are not set yet
newTitleState ==
    [hasStarted |-> FALSE, have_audio |-> undefined, have_speech_assistive |-> undefined]

\* the localStorage of a first visit
emptyStorage == [have_audio |-> null, have_speech_assistive |-> null, intro |-> null]

\* the title screen before the consent answer: no listener of doStart attached
newTitleRun ==
    [consent |-> FALSE, listening |-> FALSE, events |-> 0, thens |-> 0, timers |-> << >>,
     stateStarts |-> << >>]

\* the PracticeState after its constructor
newPracticeState ==
    [sessionPhrases |-> << >>, currentPhraseIndex |-> 0, currentCharIndex |-> 0,
     totalErrors |-> 0, sessionComplete |-> FALSE, inputs |-> 0, accepted |-> 0,
     finished |-> 0]

\* no analytics payload built yet
noMetrics ==
    [progress |-> << >>, courseMetrics |-> << >>, legacy |-> FALSE, normalized |-> << >>]

\* the objects outside GameSpace as their constructors leave them (the
\* specifications of GameSpace keep them there)
OutsideIdle ==
    /\ morseBoard = newMorseBoard
    /\ boardTimers = {}
    /\ boardLog = newBoardLog
    /\ titleState = newTitleState
    /\ localStorage = emptyStorage
    /\ titleRun = newTitleRun
    /\ practiceState = newPracticeState
    /\ metrics = noMetrics

(***************************************************************************)
(* loadLetters: the pool is the learned keys of the score map, completed   *)
(* with the first three course symbols when fewer than three are learned.  *)
(***************************************************************************)
IsLearned(dict, k) == k \in DOMAIN dict /\ dict[k] >= LEARNED_THRESHOLD

\* loadLetters without the completion of lines 373-395
loadLettersLearnedOnly(dict) ==
    SelectSeq(KeyOrder, LAMBDA k : IsLearned(dict, k))

loadLetters(dict) ==
    LET learned == SelectSeq(KeyOrder, LAMBDA k : IsLearned(dict, k))
        firstThreeLetters == SubSeq(Course, 1, 3)
    IN  IF Len(learned) < 3
        THEN learned \o SelectSeq(firstThreeLetters, LAMBDA l : l \notin Range(learned))
        ELSE learned

(***************************************************************************)
(* findAWord: scan the shuffled corpus for the first word made of pool     *)
(* symbols (containing the newest symbol while that one has a non-zero     *)
(* score below the threshold); the default word when the scan finds none.  *)
(***************************************************************************)
onlyTheseLetters(w, pool) == \A l \in DOMAIN w : w[l] \in Range(pool)

newestFilter(dict, newestLetter) ==
    /\ newestLetter \in DOMAIN dict
    /\ dict[newestLetter] # 0
    /\ dict[newestLetter] < LEARNED_THRESHOLD

\* findAWord without the substitution of lines 139-142: the scan's result as it is
findAWordNoDefault(shuffled, lettersInPlay, dict) ==
    LET newestLetter == IF Len(lettersInPlay) > 0
                        THEN lettersInPlay[Len(lettersInPlay)] ELSE "a"
        pool == IF Len(lettersInPlay) < 3 THEN SubSeq(Course, 1, 3) ELSE lettersInPlay
        taken(s) == /\ onlyTheseLetters(shuffled[s], pool)
                    /\ newestFilter(dict, newestLetter)
                          => newestLetter \in Range(shuffled[s])
        hits == {s \in DOMAIN shuffled : taken(s)}
        first == CHOOSE s \in hits : \A u \in hits : s <= u
    IN  [myWord |-> IF hits # {} THEN shuffled[first] ELSE << >>,
         pool   |-> pool]

findAWord(shuffled, lettersInPlay, dict) ==
    LET newestLetter == IF Len(lettersInPlay) > 0
                        THEN lettersInPlay[Len(lettersInPlay)] ELSE "a"
        pool == IF Len(lettersInPlay) < 3 THEN SubSeq(Course, 1, 3) ELSE lettersInPlay
        taken(s) == /\ onlyTheseLetters(shuffled[s], pool)
                    /\ newestFilter(dict, newestLetter)
                          => newestLetter \in Range(shuffled[s])
        hits == {s \in DOMAIN shuffled : taken(s)}
        first == CHOOSE s \in hits : \A u \in hits : s <= u
    IN  [myWord |-> IF hits # {} /\ shuffled[first] # << >>
                    THEN shuffled[first] ELSE defaultWord,
         pool   |-> pool]

(***************************************************************************)
(* makeWordObject: pick a word, schedule checkAddLetters, append the word. *)
(* q is the part of the state it works on: [pool, queue, timers].          *)
(***************************************************************************)
\* makeWordObject growing the pool itself, before it picks the word, when
\* the last pool symbol is learned
makeWordObjectGrowFirst(q, shuffled, dict) ==
    LET due == /\ Len(q.pool) > 0
               /\ Len(q.pool) < Len(Course)
               /\ IsLearned(dict, q.pool[Len(q.pool)])
        grown == IF due THEN SubSeq(Course, 1, Len(q.pool) + 1) ELSE q.pool
        found == findAWord(shuffled, grown, dict)
    IN  [pool   |-> found.pool,
         queue  |-> Append(q.queue, [myLetters |-> found.myWord, currentLetterIndex |-> 0]),
         timers |-> q.timers + 1]

makeWordObject(q, shuffled, dict) ==
    LET found == findAWord(shuffled, q.pool, dict)
    IN  [pool   |-> found.pool,
         queue  |-> Append(q.queue, [myLetters |-> found.myWord, currentLetterIndex |-> 0]),
         timers |-> q.timers + 1]

RECURSIVE makeWords(_, _, _, _)
makeWords(q, shuffles, i, dict) ==
    IF i > Len(shuffles) THEN q
    ELSE makeWords(makeWordObject(q, shuffles[i], dict), shuffles, i + 1, dict)

(***************************************************************************)
(* checkAddLetters, the body of its 200 ms timer.                          *)
(***************************************************************************)
\* checkAddLetters asking for more than CONSECUTIVE_CORRECT answers in a row
checkAddLettersStrict(pool, dict, streak) ==
    LET arrayIntersection == SelectSeq(pool, LAMBDA l : l \in Range(Course))
        lastLetter == /\ Len(arrayIntersection) > 0
                      /\ IsLearned(dict, arrayIntersection[Len(arrayIntersection)])
        oldLength == Len(pool)
        newLength == IF oldLength + 1 > Len(Course) THEN Len(Course) ELSE oldLength + 1
    IN  IF lastLetter /\ streak > CONSECUTIVE_CORRECT
        THEN [pool |-> SubSeq(Course, 1, newLength), streak |-> 0]
        ELSE [pool |-> pool, streak |-> streak]

\* checkAddLetters testing the streak only, not the last symbol's score
checkAddLettersAnyLetter(pool, dict, streak) ==
    LET oldLength == Len(pool)
        newLength == IF oldLength + 1 > Len(Course) THEN Len(Course) ELSE oldLength + 1
    IN  IF streak >= CONSECUTIVE_CORRECT
        THEN [pool |-> SubSeq(Course, 1, newLength), streak |-> 0]
        ELSE [pool |-> pool, streak |-> streak]

checkAddLetters(pool, dict, streak) ==
    LET arrayIntersection == SelectSeq(pool, LAMBDA l : l \in Range(Course))
        lastLetter == /\ Len(arrayIntersection) > 0
                      /\ IsLearned(dict, arrayIntersection[Len(arrayIntersection)])
        oldLength == Len(pool)
        newLength == IF oldLength + 1 > Len(Course) THEN Len(Course) ELSE oldLength + 1
    IN  IF lastLetter /\ streak >= CONSECUTIVE_CORRECT
        THEN [pool |-> SubSeq(Course, 1, newLength), streak |-> 0]
        ELSE [pool |-> pool, streak |-> streak]

(***************************************************************************)
(* checkAllLettersLearned: the number of learned keys of the score map     *)
(* equals the number of course symbols.                                    *)
(***************************************************************************)
checkAllLettersLearned(dict) ==
    Cardinality({k \in DOMAIN dict : dict[k] >= LEARNED_THRESHOLD}) = Len(Course)

(***************************************************************************)
(* The pieces of checkMatch.                                               *)
(***************************************************************************)
\* a gate that lets every submission through
gateNeverClosed(ready) == FALSE

gateClosed(ready) == ~ready

\* the upper clamp left out
clampUpperMissing(score) == score

clampUpper(score) ==
    IF score > LEARNED_THRESHOLD + 2 THEN LEARNED_THRESHOLD + 2 ELSE score

\* the lower clamp left out
clampLowerMissing(score) == score

clampLower(score) ==
    IF score < -LEARNED_THRESHOLD - 2 THEN -LEARNED_THRESHOLD - 2 ELSE score

\* the word-advance test of line 576, and the same test off by one
wordFinishedLate(word) == word.currentLetterIndex > Len(word.myLetters)

wordFinished(word) == word.currentLetterIndex >= Len(word.myLetters)

\* the test of line 580 that calls addAWord, and the same test with >=
needsAWordEarly(index, length) == index >= length - 2

needsAWord(index, length) == index > length - 2

\* the read clamped to the last symbol of the word
letterAtClamped(word) ==
    IF word.currentLetterIndex < Len(word.myLetters)
    THEN word.myLetters[word.currentLetterIndex + 1] ELSE word.myLetters[Len(word.myLetters)]

\* word.myLetters[word.currentLetterIndex]
letterAt(word) ==
    IF word.currentLetterIndex < Len(word.myLetters)
    THEN word.myLetters[word.currentLetterIndex + 1] ELSE undefined

\* EMPTY_ANALYTICS, the default of localStorage analyticsData, on the symbols
\* of the course
EMPTY_ANALYTICS == [l \in Range(Course) |-> [wrong |-> 0, correct |-> 0]]

\* localStorage analyticsData at the start of a session: the default, or a
\* stored value without an entry for any symbol of the course (a course
\* outside a-z, for which EMPTY_ANALYTICS has no entries)
StoredAnalytics == {EMPTY_ANALYTICS, [l \in {} |-> [wrong |-> 0, correct |-> 0]]}

\* incrementAnalyticsCount writing 1 instead of adding 1
incrementAnalyticsCountOnce(data, key, letter) ==
    [data EXCEPT ![letter][key] = 1]

incrementAnalyticsCount(data, key, letter) ==
    [data EXCEPT ![letter][key] = @ + 1]

\* HeaderSpace.saveLetters(score): the value left in localStorage[storageKey]
saveLetters(score) == score

\* GameState.saveProgress(): the score map of the moment is persisted
saveProgress(score) == score

Remove(s, i) == SubSeq(s, 1, i - 1) \o SubSeq(s, i + 1, Len(s))

(***************************************************************************)
(* playHints(letter, attempts): the hint players it calls, in order.       *)
(***************************************************************************)
\* word.getCurrentLetter()
getCurrentLetter(word) == letterAt(word)

playMorse(letter) == [player |-> "playMorse", letter |-> letter]

playLetterSoundAlike(letter) == [player |-> "playLetterSoundAlike", letter |-> letter]

\* playHints comparing attempts itself, not attempts % 4, with the tiers
playHintsNoCycle(letter, attempts) ==
    IF attempts = 0 THEN <<playMorse(letter), playLetterSoundAlike(letter)>>
    ELSE IF attempts = 1 THEN << >>
    ELSE IF attempts = 2 THEN <<playMorse(letter)>>
    ELSE IF attempts = 3 THEN <<playLetterSoundAlike(letter)>>
    ELSE << >>

playHints(letter, attempts) ==
    IF attempts % 4 = 0 THEN <<playMorse(letter), playLetterSoundAlike(letter)>>
    ELSE IF attempts % 4 = 1 THEN << >>
    ELSE IF attempts % 4 = 2 THEN <<playMorse(letter)>>
    ELSE IF attempts % 4 = 3 THEN <<playLetterSoundAlike(letter)>>
    ELSE << >>

Init ==
    /\ letterScoreDict \in SavedMaps
    /\ currentLettersInPlay = loadLetters(letterScoreDict)
    /\ currentWords = << >>
    /\ currentWordIndex = 0
    /\ mistakeCount = 0
    /\ consecutiveCorrect = 0
    /\ inputReady = TRUE
    /\ have_speech_assistive \in BOOLEAN
    /\ have_audio = TRUE
    /\ OutsideIdle
    /\ words \in Corpora
    /\ analyticsData \in StoredAnalytics
    /\ saved = saveLetters(letterScoreDict)
    /\ played = << >>
    /\ turns = << >>
    /\ addLettersTimers = 0
    /\ wordsTimer = TRUE
    /\ gameState = "game"
    /\ calls = 0
    /\ last = [op |-> "none", learned |-> "none"]

(***************************************************************************)
(* The 500 ms timer of create: the initial words, then createFirstWord up  *)
(* to its first await.                                                     *)
(***************************************************************************)
CreateInitialWords ==
    /\ wordsTimer
    /\ \E shuffles \in [1..howManyWordsToStart -> shuffle(words)] :
         LET q == makeWords([pool |-> currentLettersInPlay, queue |-> currentWords,
                             timers |-> addLettersTimers], shuffles, 1, letterScoreDict)
         IN  /\ currentLettersInPlay' = q.pool
             /\ currentWords' = q.queue
             /\ addLettersTimers' = q.timers
             /\ turns' = Append(turns, [pc |-> "firstWord", word |-> 0,
                                        letter |-> letterAt(q.queue[1]),
                                        attempts |-> 0])
    /\ wordsTimer' = FALSE
    /\ UNCHANGED <<last, letterScoreDict, currentWordIndex, mistakeCount, consecutiveCorrect,
                   inputReady, have_speech_assistive, have_audio, outside, words, analyticsData,
                   saved, played,
                   gameState, calls>>

(***************************************************************************)
(* checkMatch from the word advance (line 576) to the first await of the   *)
(* hint chain (line 607): cw is the queue, dict the score map, w the local *)
(* word, rest the other suspended calls.                                   *)
(***************************************************************************)
CorrectRest(cw, dict, w, rest, op) ==
    LET wrap == wordFinished(cw[w + 1])
        index == IF wrap THEN currentWordIndex + 1 ELSE currentWordIndex
        cw1 == IF wrap THEN [cw EXCEPT ![w + 1].currentLetterIndex = 0] ELSE cw
        q0 == [pool |-> currentLettersInPlay, queue |-> cw1, timers |-> addLettersTimers]
    IN  \E shuffled \in shuffle(words) :
          LET q == IF wrap /\ needsAWord(index, Len(cw1))
                   THEN makeWordObject(q0, shuffled, dict) ELSE q0
              learned == checkAllLettersLearned(dict)
          IN  /\ currentWordIndex' = index
              /\ currentWords' = q.queue
              /\ currentLettersInPlay' = q.pool
              /\ addLettersTimers' = q.timers
              /\ inputReady' = TRUE
              /\ saved' = IF learned THEN saveProgress(saveLetters(dict))
                           ELSE saveLetters(dict)
              /\ gameState' = IF learned THEN "congratulations" ELSE gameState
              /\ turns' = IF learned THEN rest
                          ELSE Append(rest, [pc |-> "hintCorrect", word |-> index,
                                             letter |-> letterAt(q.queue[index + 1]),
                                             attempts |-> 0])
              /\ last' = [op |-> op, learned |-> IF learned THEN "true" ELSE "false"]

\* catch without the finally block: the gate stays as line 547 left it
ThrewNoFinally ==
    /\ inputReady' = FALSE
    /\ last' = [op |-> "threw", learned |-> "none"]
    /\ UNCHANGED <<letterScoreDict, currentLettersInPlay, currentWords, currentWordIndex,
                   mistakeCount, consecutiveCorrect, analyticsData, saved, turns,
                   addLettersTimers, gameState>>

\* catch and finally of checkMatch after a failed lookup
Threw ==
    /\ inputReady' = TRUE
    /\ last' = [op |-> "threw", learned |-> "none"]
    /\ UNCHANGED <<letterScoreDict, currentLettersInPlay, currentWords, currentWordIndex,
                   mistakeCount, consecutiveCorrect, analyticsData, saved, turns,
                   addLettersTimers, gameState>>

Dropped ==
    /\ last' = [op |-> "dropped", learned |-> "none"]
    /\ UNCHANGED <<letterScoreDict, currentLettersInPlay, currentWords, currentWordIndex,
                   mistakeCount, consecutiveCorrect, inputReady, analyticsData, saved,
                   turns, addLettersTimers, gameState>>

CorrectPath(w, letter) ==
    LET cw == [currentWords EXCEPT ![w + 1].currentLetterIndex = @ + 1]
        raised == [letterScoreDict EXCEPT ![letter] = @ + 1]
        dict == [raised EXCEPT ![letter] = clampUpper(@)]
    IN  /\ analyticsData' = incrementAnalyticsCount(analyticsData, "correct", letter)
        /\ mistakeCount' = 0
        /\ consecutiveCorrect' = consecutiveCorrect + 1
        /\ letterScoreDict' = dict
        /\ IF have_speech_assistive
           THEN /\ currentWords' = cw
                /\ turns' = Append(turns, [pc |-> "playCorrect", word |-> w,
                                           letter |-> letter, attempts |-> 0])
                /\ inputReady' = FALSE
                /\ saved' = saveProgress(raised)
                /\ last' = [op |-> "correct", learned |-> "none"]
                /\ UNCHANGED <<currentLettersInPlay, currentWordIndex,
                               addLettersTimers, gameState>>
           ELSE CorrectRest(cw, dict, w, turns, "correct")

WrongPath(w, letter) ==
    /\ analyticsData' = incrementAnalyticsCount(analyticsData, "wrong", letter)
    /\ mistakeCount' = mistakeCount + 1
    /\ consecutiveCorrect' = 0
    /\ last' = [op |-> "wrong", learned |-> "none"]
    /\ IF have_speech_assistive
       THEN /\ letterScoreDict' = [letterScoreDict EXCEPT ![letter] = @ - 1]
            /\ turns' = Append(turns, [pc |-> "playWrong", word |-> w, letter |-> letter,
                                       attempts |-> mistakeCount + 1])
            /\ inputReady' = FALSE
            /\ saved' = saved
       ELSE /\ letterScoreDict' = [letterScoreDict EXCEPT ![letter] = clampLower(@ - 1)]
            /\ turns' = Append(turns, [pc |-> "hintWrong", word |-> w, letter |-> letter,
                                       attempts |-> mistakeCount + 1])
            /\ inputReady' = TRUE
            /\ saved' = saveLetters([letterScoreDict EXCEPT ![letter] = @ - 1])
    /\ UNCHANGED <<currentLettersInPlay, currentWords, currentWordIndex,
                   addLettersTimers, gameState>>

checkMatch(typedLetter) ==
    /\ calls < MaxCalls
    /\ ~gateClosed(inputReady) => Len(turns) < MaxInFlight
    /\ calls' = calls + 1
    /\ UNCHANGED <<have_speech_assistive, have_audio, outside, words, wordsTimer, played>>
    /\ IF gateClosed(inputReady) THEN Dropped
       ELSE IF currentWordIndex >= Len(currentWords) THEN Threw
       ELSE LET w == currentWordIndex
                letter == letterAt(currentWords[w + 1])
            IN  IF letter \notin DOMAIN analyticsData THEN Threw
                ELSE IF typedLetter = letter
                THEN CorrectPath(w, letter)
                ELSE WrongPath(w, letter)

(***************************************************************************)
(* checkMatch resumes after await playCorrect (speech hints on).           *)
(***************************************************************************)
ResumeCorrect(i) ==
    /\ turns[i].pc = "playCorrect"
    /\ CorrectRest(currentWords, letterScoreDict, turns[i].word, Remove(turns, i),
                   "resumeCorrect")
    /\ UNCHANGED <<letterScoreDict, mistakeCount, consecutiveCorrect,
                   have_speech_assistive, have_audio, outside, words, analyticsData, played,
                   wordsTimer, calls>>

(***************************************************************************)
(* checkMatch resumes after await playWrong (speech hints on): the lower   *)
(* clamp, then the gate opens and the hint chain starts.                   *)
(***************************************************************************)
\* the resumption without line 634: the gate is left to the finally block
ResumeWrongGateLate(i) ==
    /\ turns[i].pc = "playWrong"
    /\ saved' = saveLetters(letterScoreDict)
    /\ letterScoreDict' = [letterScoreDict EXCEPT ![turns[i].letter] = clampLower(@)]
    /\ inputReady' = inputReady
    /\ turns' = [turns EXCEPT ![i].pc = "hintWrong"]
    /\ UNCHANGED <<last, currentLettersInPlay, currentWords, currentWordIndex, mistakeCount,
                   consecutiveCorrect, have_speech_assistive, have_audio, outside, words,
                   analyticsData, played, addLettersTimers, wordsTimer, gameState, calls>>

ResumeWrong(i) ==
    /\ turns[i].pc = "playWrong"
    /\ saved' = saveLetters(letterScoreDict)
    /\ letterScoreDict' = [letterScoreDict EXCEPT ![turns[i].letter] = clampLower(@)]
    /\ inputReady' = TRUE
    /\ turns' = [turns EXCEPT ![i].pc = "hintWrong"]
    /\ UNCHANGED <<last, currentLettersInPlay, currentWords, currentWordIndex, mistakeCount,
                   consecutiveCorrect, have_speech_assistive, have_audio, outside, words,
                   analyticsData,
                   played, addLettersTimers, wordsTimer, gameState, calls>>

(***************************************************************************)
(* A hint chain (of checkMatch or of createFirstWord) runs to its end: the *)
(* finally block of checkMatch, the last statement of createFirstWord.     *)
(***************************************************************************)
FinishHints(i) ==
    /\ turns[i].pc \in {"hintCorrect", "hintWrong", "firstWord"}
    /\ inputReady' = TRUE
    /\ turns' = Remove(turns, i)
    /\ UNCHANGED <<last, letterScoreDict, currentLettersInPlay, currentWords, currentWordIndex,
                   mistakeCount, consecutiveCorrect, have_speech_assistive, have_audio, outside,
                   words,
                   analyticsData, saved, played, addLettersTimers, wordsTimer, gameState,
                   calls>>

(***************************************************************************)
(* A 200 ms timer of checkAddLetters fires.                                *)
(***************************************************************************)
CheckAddLettersTimer ==
    /\ addLettersTimers > 0
    /\ addLettersTimers' = addLettersTimers - 1
    /\ LET r == checkAddLetters(currentLettersInPlay, letterScoreDict, consecutiveCorrect)
       IN  /\ currentLettersInPlay' = r.pool
           /\ consecutiveCorrect' = r.streak
    /\ UNCHANGED <<last, letterScoreDict, currentWords, currentWordIndex, mistakeCount,
                   inputReady, have_speech_assistive, have_audio, outside, words, analyticsData,
                   saved, played,
                   turns, wordsTimer, gameState, calls>>

Next ==
    \/ CreateInitialWords
    \/ \E typedLetter \in TypedLetters : checkMatch(typedLetter)
    \/ \E i \in DOMAIN turns : ResumeCorrect(i)
    \/ \E i \in DOMAIN turns : ResumeWrong(i)
    \/ \E i \in DOMAIN turns : FinishHints(i)
    \/ CheckAddLettersTimer

Spec == Init /\ [][Next]_vars

\* the sessions of Spec up to MaxLiveCalls submissions, in which the awaited
\* delay of a feedback sound (playCorrect, playWrong) always ends
LiveNext == Next /\ calls' <= MaxLiveCalls

LiveSpec ==
    /\ Init
    /\ [][LiveNext]_vars
    /\ WF_vars(\E i \in DOMAIN turns : ResumeCorrect(i))
    /\ WF_vars(\E i \in DOMAIN turns : ResumeWrong(i))

(***************************************************************************)
(* findAWord on its own: every score map, pool and corpus of the sets      *)
(* below, and addAWord asking for one word after the other.                *)
(***************************************************************************)
\* score maps with every value the newest symbol's test tells apart
FindMaps == {ScoreMap(0, 0, a, i, c) : a \in {-1, 0, 1, LEARNED_THRESHOLD},
                                       i \in {0, 1, LEARNED_THRESHOLD},
                                       c \in {0, LEARNED_THRESHOLD}}

\* corpora: none, the two-word corpus of the sessions, one whose two words
\* both fit the first three symbols while only one holds the third, one
\* that has no word of pool symbols for most pools, one with an empty word
FindCorpora == Corpora \cup { << <<"e", "t">>, <<"t", "e", "a">> >>,
                              << <<"i", "c", "e">> >>,
                              << << >>, <<"t", "e", "a">> >> }

\* the pools a session can hold with a score map: the one loadLetters
\* builds, or a prefix of the course that checkAddLetters has set
FindPools(dict) == {loadLetters(dict)} \cup {SubSeq(Course, 1, n) : n \in 3..Len(Course)}

FindInit ==
    /\ letterScoreDict \in FindMaps
    /\ currentLettersInPlay \in FindPools(letterScoreDict)
    /\ words \in FindCorpora
    /\ currentWords = << >>
    /\ currentWordIndex = 0
    /\ mistakeCount = 0
    /\ consecutiveCorrect = 0
    /\ inputReady = TRUE
    /\ have_speech_assistive = FALSE
    /\ have_audio = TRUE
    /\ OutsideIdle
    /\ analyticsData = EMPTY_ANALYTICS
    /\ saved = saveLetters(letterScoreDict)
    /\ played = << >>
    /\ turns = << >>
    /\ addLettersTimers = 0
    /\ wordsTimer = FALSE
    /\ gameState = "game"
    /\ calls = 0
    /\ last = [op |-> "none", learned |-> "none"]

\* addAWord: makeWordObject appends the word findAWord returns
addAWord ==
    /\ Len(currentWords) < MaxWords
    /\ \E shuffled \in shuffle(words) :
         LET q == makeWordObject([pool |-> currentLettersInPlay, queue |-> currentWords,
                                  timers |-> addLettersTimers], shuffled, letterScoreDict)
         IN  /\ currentLettersInPlay' = q.pool
             /\ currentWords' = q.queue
             /\ addLettersTimers' = q.timers
    /\ UNCHANGED <<letterScoreDict, currentWordIndex, mistakeCount, consecutiveCorrect,
                   inputReady, have_speech_assistive, have_audio, outside, words, analyticsData,
                   saved, played,
                   turns, wordsTimer, gameState, calls, last>>

FindNext == addAWord

FindSpec == FindInit /\ [][FindNext]_vars

(***************************************************************************)
(* playHints on its own: a hint chain of checkMatch stands before its call *)
(* of playHints, for every word, cursor and mistake count of the sets      *)
(* below.                                                                  *)
(***************************************************************************)
HintInit ==
    /\ letterScoreDict \in {ScoreMap(0, 0, 0, 0, 0),
                             ScoreMap(LEARNED_THRESHOLD, LEARNED_THRESHOLD, LEARNED_THRESHOLD,
                                      LEARNED_THRESHOLD, 0)}
    /\ currentLettersInPlay = loadLetters(letterScoreDict)
    /\ words \in Corpora \ {<< >>}
    /\ \E n \in DOMAIN words : \E k \in 0..(Len(words[n]) - 1) :
          currentWords = <<[myLetters |-> words[n], currentLetterIndex |-> k]>>
    /\ currentWordIndex = 0
    /\ mistakeCount \in 0..MaxAttempts
    /\ consecutiveCorrect = 0
    /\ inputReady = TRUE
    /\ have_speech_assistive \in BOOLEAN
    /\ have_audio \in BOOLEAN
    /\ OutsideIdle
    /\ analyticsData = EMPTY_ANALYTICS
    /\ saved = saveLetters(letterScoreDict)
    /\ played = << >>
    /\ \E pc \in {"hintCorrect", "hintWrong"} :
          turns = <<[pc |-> pc, word |-> 0, letter |-> letterAt(currentWords[1]),
                     attempts |-> IF pc = "hintWrong" THEN mistakeCount ELSE 0]>>
    /\ addLettersTimers = 0
    /\ wordsTimer = FALSE
    /\ gameState = "game"
    /\ calls = 0
    /\ last = [op |-> "none", learned |-> "none"]

\* the end of a hint chain of checkMatch: lines 608-610 after a correct
\* turn, line 639 after a wrong one, then the finally block; a player that
\* is handed no letter object (the word's cursor is past its last symbol)
\* throws before it starts a sound
PlayHints(i) ==
    /\ turns[i].pc \in {"hintCorrect", "hintWrong"}
    /\ LET word == currentWords[turns[i].word + 1]
           letter == turns[i].letter
       IN  played' =
             IF getCurrentLetter(word) = undefined THEN << >>
             ELSE IF turns[i].pc = "hintWrong"
             THEN playHints(getCurrentLetter(word), mistakeCount)
             ELSE IF letter \in DOMAIN letterScoreDict
                     /\ letterScoreDict[letter] < LEARNED_THRESHOLD
             THEN playHints(getCurrentLetter(word), 0)
             ELSE << >>
    /\ inputReady' = TRUE
    /\ turns' = Remove(turns, i)
    /\ UNCHANGED <<last, letterScoreDict, currentLettersInPlay, currentWords, currentWordIndex,
                   mistakeCount, consecutiveCorrect, have_speech_assistive, have_audio, outside,
                   words,
                   analyticsData, saved, addLettersTimers, wordsTimer, gameState, calls>>

HintNext == \E i \in DOMAIN turns : PlayHints(i)

HintSpec == HintInit /\ [][HintNext]_vars

(***************************************************************************)
(* The sessions with the hint players observed: the hint chains of         *)
(* checkMatch and of createFirstWord end with their playHints call, while  *)
(* further submissions are accepted.                                       *)
(***************************************************************************)
\* the calls of the hint players that start a sound: playMorse plays dash
\* and period sounds when have_audio is set, playLetterSoundAlike plays the
\* sound-alike when have_speech_assistive is set
soundsStarted(players, audio, speech) ==
    SelectSeq(players, LAMBDA c : \/ (c.player = "playMorse" /\ audio)
                                  \/ (c.player = "playLetterSoundAlike" /\ speech))

ChainInit ==
    /\ letterScoreDict \in {ScoreMap(0, 0, 0, 0, 0),
                             ScoreMap(LEARNED_THRESHOLD, LEARNED_THRESHOLD + 1,
                                      LEARNED_THRESHOLD + 2, 0, 0)}
    /\ currentLettersInPlay = loadLetters(letterScoreDict)
    /\ currentWords = << >>
    /\ currentWordIndex = 0
    /\ mistakeCount = 0
    /\ consecutiveCorrect = 0
    /\ inputReady = TRUE
    /\ have_speech_assistive \in BOOLEAN
    /\ have_audio \in BOOLEAN
    /\ OutsideIdle
    /\ words = << <<"a">>, <<"i", "t">> >>
    /\ analyticsData = EMPTY_ANALYTICS
    /\ saved = saveLetters(letterScoreDict)
    /\ played = << >>
    /\ turns = << >>
    /\ addLettersTimers = 0
    /\ wordsTimer = TRUE
    /\ gameState = "game"
    /\ calls = 0
    /\ last = [op |-> "none", learned |-> "none"]

\* the end of createFirstWord: lines 331-343
FirstWordHints(i) ==
    /\ turns[i].pc = "firstWord"
    /\ LET word == currentWords[turns[i].word + 1]
           letter == turns[i].letter
       IN  played' =
             IF getCurrentLetter(word) = undefined THEN << >>
             ELSE IF letter \in DOMAIN letterScoreDict
                     /\ letterScoreDict[letter] < LEARNED_THRESHOLD
             THEN playHints(getCurrentLetter(word), 0)
             ELSE << >>
    /\ inputReady' = TRUE
    /\ turns' = Remove(turns, i)
    /\ UNCHANGED <<last, letterScoreDict, currentLettersInPlay, currentWords, currentWordIndex,
                   mistakeCount, consecutiveCorrect, have_speech_assistive, have_audio, outside,
                   words,
                   analyticsData, saved, addLettersTimers, wordsTimer, gameState, calls>>

ChainNext ==
    \/ CreateInitialWords
    \/ \E typedLetter \in TypedLetters : checkMatch(typedLetter)
    \/ \E i \in DOMAIN turns : ResumeCorrect(i)
    \/ \E i \in DOMAIN turns : ResumeWrong(i)
    \/ \E i \in DOMAIN turns : PlayHints(i)
    \/ \E i \in DOMAIN turns : FirstWordHints(i)
    \/ CheckAddLettersTimer

ChainSpec == ChainInit /\ [][ChainNext]_vars

(***************************************************************************)
(* The sessions with restarts: the game state is started again and create  *)
(* runs a second time on the controller of the session before.             *)
(***************************************************************************)
\* GameState starts the session again on the GameSpace it holds, once the
\* initial words are made, no asynchronous call is suspended and no timer of
\* checkAddLetters is pending
restartSession == ~wordsTimer /\ turns = << >> /\ addLettersTimers = 0

\* create, lines 152-280: the queue and the pool are emptied, the score map
\* is taken from the parent, loadLetters fills the pool and saves the map,
\* and the 500 ms timer of the initial words is started
create ==
    /\ restartSession
    /\ currentWords' = << >>
    /\ currentLettersInPlay' = loadLetters(letterScoreDict)
    /\ saved' = saveLetters(letterScoreDict)
    /\ wordsTimer' = TRUE
    /\ gameState' = "game"
    /\ UNCHANGED <<letterScoreDict, currentWordIndex, mistakeCount, consecutiveCorrect,
                   inputReady, have_speech_assistive, have_audio, outside, words, analyticsData,
                   played, turns, addLettersTimers, calls, last>>

RestartInit ==
    /\ letterScoreDict \in {ScoreMap(0, 0, 0, 0, 0),
                             ScoreMap(0, 0, 0, LEARNED_THRESHOLD, 0)}
    /\ currentLettersInPlay = loadLetters(letterScoreDict)
    /\ currentWords = << >>
    /\ currentWordIndex = 0
    /\ mistakeCount = 0
    /\ consecutiveCorrect = 0
    /\ inputReady = TRUE
    /\ have_speech_assistive \in BOOLEAN
    /\ have_audio = TRUE
    /\ OutsideIdle
    /\ words = << <<"a">>, <<"i", "t">> >>
    /\ analyticsData = EMPTY_ANALYTICS
    /\ saved = saveLetters(letterScoreDict)
    /\ played = << >>
    /\ turns = << >>
    /\ addLettersTimers = 0
    /\ wordsTimer = TRUE
    /\ gameState = "game"
    /\ calls = 0
    /\ last = [op |-> "none", learned |-> "none"]

RestartNext == Next \/ create

RestartSpec == RestartInit /\ [][RestartNext]_vars

(***************************************************************************)
(* checkAddLetters on its own: words are made and the 200 ms timers fire,  *)
(* for every score map, pool, streak and corpus of the sets below.         *)
(***************************************************************************)
\* score maps: "t" learned, every other course symbol learned or not
GrowMaps == {ScoreMap(e, LEARNED_THRESHOLD, a, i, c) :
                e \in {0, LEARNED_THRESHOLD}, a \in {0, LEARNED_THRESHOLD},
                i \in {0, LEARNED_THRESHOLD}, c \in {0, LEARNED_THRESHOLD}}

\* corpora: the two-word corpus of the sessions, and one whose word holds
\* the last symbol of the course
GrowCorpora == { << <<"a">>, <<"i", "t">> >>, << <<"t", "i", "c">> >> }

GrowInit ==
    /\ letterScoreDict \in GrowMaps
    /\ currentLettersInPlay \in FindPools(letterScoreDict)
    /\ words \in GrowCorpora
    /\ currentWords = << >>
    /\ currentWordIndex = 0
    /\ mistakeCount = 0
    /\ consecutiveCorrect \in 0..MaxStreak
    /\ inputReady = TRUE
    /\ have_speech_assistive = FALSE
    /\ have_audio = TRUE
    /\ OutsideIdle
    /\ analyticsData = EMPTY_ANALYTICS
    /\ saved = saveLetters(letterScoreDict)
    /\ played = << >>
    /\ turns = << >>
    /\ addLettersTimers = 0
    /\ wordsTimer = FALSE
    /\ gameState = "game"
    /\ calls = 0
    /\ last = [op |-> "none", learned |-> "none"]

GrowNext == addAWord \/ CheckAddLettersTimer

GrowSpec == GrowInit /\ [][GrowNext]_vars

(***************************************************************************)
(* Notions used by the properties.                                         *)
(***************************************************************************)
MinScore == -(LEARNED_THRESHOLD + 2)
MaxScore == LEARNED_THRESHOLD + 2

\* suspended checkMatch calls that have closed the gate and not yet re-opened it
Evaluating == {i \in DOMAIN turns : turns[i].pc \in {"playCorrect", "playWrong"}}

Suspended(pc) == {i \in DOMAIN turns : turns[i].pc = pc}

\* a checkMatch invocation happens in this step
Submitted == calls' = calls + 1

\* the symbol the next submission is compared with
Expected == letterAt(currentWords[currentWordIndex + 1])

RECURSIVE SymbolsBefore(_, _)
SymbolsBefore(queue, n) ==
    IF n = 0 THEN 0 ELSE Len(queue[n].myLetters) + SymbolsBefore(queue, n - 1)

\* the cursor as a position in the concatenation of the queued words
CursorPos(queue, index) ==
    SymbolsBefore(queue, index) + queue[index + 1].currentLetterIndex

CursorOnSymbol(queue, index) ==
    /\ index < Len(queue)
    /\ queue[index + 1].currentLetterIndex < Len(queue[index + 1].myLetters)

AllCourseLearned(dict) == \A s \in Range(Course) : dict[s] >= LEARNED_THRESHOLD

(***************************************************************************)
(* C1: whenever no turn is suspended between its decrement and its lower   *)
(* clamp, every mastery score lies in [-(T+2), T+2] (the saved maps a      *)
(* session starts from all lie in that range).                             *)
(***************************************************************************)
C1_ScoresInRange ==
    Suspended("playWrong") = {} =>
        \A k \in DOMAIN letterScoreDict :
            MinScore <= letterScoreDict[k] /\ letterScoreDict[k] <= MaxScore

\* a first correct answer on "a", which was at T+2, has been clamped back to T+2
C1_Witness ==
    /\ calls = 1
    /\ last.op = "correct"
    /\ analyticsData["a"].correct = 1
    /\ letterScoreDict["a"] = MaxScore

(***************************************************************************)
(* C2: at most one checkMatch invocation is between closing the gate and   *)
(* re-opening it.                                                          *)
(***************************************************************************)
C2_OneTurnEvaluating == Cardinality(Evaluating) <= 1

(***************************************************************************)
(* C3: a checkMatch invocation that finds the gate closed changes no       *)
(* score, counter, streak, mistake count, cursor or queue, and leaves no   *)
(* suspended call behind that would process it later.                      *)
(***************************************************************************)
C3_ClosedGateDrops ==
    [][(Submitted /\ ~inputReady) =>
         UNCHANGED <<letterScoreDict, analyticsData, consecutiveCorrect, mistakeCount,
                     currentWordIndex, currentWords, currentLettersInPlay, turns,
                     addLettersTimers, inputReady, gameState>>]_vars

\* a submission has been dropped while a turn is being evaluated
C3_Witness == last.op = "dropped" /\ ~inputReady /\ Evaluating # {}

(***************************************************************************)
(* C4: a correct submission adds 1 to the expected symbol's score (capped  *)
(* at T+2), adds exactly 1 to the streak, resets the mistake count, moves  *)
(* the cursor one symbol forward and changes no other score; when the      *)
(* turn's evaluation ends in the same step the cursor stands on a symbol   *)
(* (the first one of the next word after a word's last symbol), and the    *)
(* resumption after the awaited feedback sound keeps the cursor position   *)
(* and all scores.                                                         *)
(***************************************************************************)
C4_CorrectTurn ==
    [][/\ (Submitted /\ last'.op = "correct") =>
            LET e == Expected
                w == currentWordIndex
                i == currentWords[w + 1].currentLetterIndex
                atEnd == i + 1 = Len(currentWords[w + 1].myLetters)
            IN  /\ letterScoreDict'[e] =
                       IF letterScoreDict[e] + 1 > MaxScore THEN MaxScore
                       ELSE letterScoreDict[e] + 1
                /\ \A k \in DOMAIN letterScoreDict \ {e} :
                       letterScoreDict'[k] = letterScoreDict[k]
                /\ DOMAIN letterScoreDict' = DOMAIN letterScoreDict
                /\ consecutiveCorrect' = consecutiveCorrect + 1
                /\ mistakeCount' = 0
                /\ CursorPos(currentWords', currentWordIndex')
                       = CursorPos(currentWords, currentWordIndex) + 1
                /\ ~have_speech_assistive =>
                       /\ currentWordIndex' = IF atEnd THEN w + 1 ELSE w
                       /\ currentWords'[currentWordIndex' + 1].currentLetterIndex
                              = IF atEnd THEN 0 ELSE i + 1
                       /\ CursorOnSymbol(currentWords', currentWordIndex')
       /\ Cardinality(Suspended("playCorrect")') < Cardinality(Suspended("playCorrect")) =>
            /\ CursorPos(currentWords', currentWordIndex')
                   = CursorPos(currentWords, currentWordIndex)
            /\ UNCHANGED <<letterScoreDict, consecutiveCorrect, mistakeCount>>
            /\ Suspended("playCorrect")' = {} =>
                   CursorOnSymbol(currentWords', currentWordIndex')
      ]_vars

\* a correct answer on the last symbol of the first word has moved the cursor
\* to the first symbol of the second word
C4_Witness ==
    /\ last.op \in {"correct", "resumeCorrect"}
    /\ currentWordIndex = 1
    /\ currentWords[2].currentLetterIndex = 0
    /\ consecutiveCorrect > 0

(***************************************************************************)
(* C5: an incorrect submission subtracts 1 from the expected symbol's      *)
(* score (floored at -(T+2), by the resumption after the awaited feedback  *)
(* sound when speech hints are on), adds 1 to the mistake count, resets    *)
(* the streak, and leaves the cursor and every other score unchanged.      *)
(***************************************************************************)
C5_IncorrectTurn ==
    [][/\ (Submitted /\ last'.op = "wrong") =>
            LET e == Expected
            IN  /\ letterScoreDict'[e] =
                       IF have_speech_assistive \/ letterScoreDict[e] - 1 >= MinScore
                       THEN letterScoreDict[e] - 1 ELSE MinScore
                /\ \A k \in DOMAIN letterScoreDict \ {e} :
                       letterScoreDict'[k] = letterScoreDict[k]
                /\ DOMAIN letterScoreDict' = DOMAIN letterScoreDict
                /\ mistakeCount' = mistakeCount + 1
                /\ consecutiveCorrect' = 0
                /\ UNCHANGED <<currentWordIndex, currentWords>>
                /\ Expected' = e
       /\ Cardinality(Suspended("playWrong")') < Cardinality(Suspended("playWrong")) =>
            /\ \A k \in DOMAIN letterScoreDict :
                   \/ letterScoreDict'[k] = letterScoreDict[k]
                   \/ letterScoreDict[k] < MinScore /\ letterScoreDict'[k] = MinScore
            /\ UNCHANGED <<currentWordIndex, currentWords, mistakeCount, consecutiveCorrect>>
      ]_vars

\* a wrong answer on "a", which was at -(T+2), has been floored back to -(T+2)
C5_Witness ==
    /\ calls = 1
    /\ last.op = "wrong"
    /\ Suspended("playWrong") = {}
    /\ analyticsData["a"].wrong = 1
    /\ letterScoreDict["a"] = MinScore
    /\ mistakeCount = 1

(***************************************************************************)
(* C6: the size of the active pool never decreases and never exceeds the   *)
(* number of course symbols.                                               *)
(***************************************************************************)
C6_PoolMonotoneBounded ==
    [][/\ Len(currentLettersInPlay') >= Len(currentLettersInPlay)
       /\ Len(currentLettersInPlay') <= Len(Course)]_vars

C8_CompleteIffAllLearned ==
    last.learned # "none" =>
        (last.learned = "true" <=> AllCourseLearned(letterScoreDict))

(***************************************************************************)
(* C9: once the course is complete no checkMatch invocation changes a      *)
(* score, an analytics counter, the streak, the mistake count or the       *)
(* cursor.                                                                 *)
(***************************************************************************)
C9_NoTurnAfterComplete ==
    [][(gameState = "congratulations" /\ Submitted) =>
         UNCHANGED <<letterScoreDict, analyticsData, consecutiveCorrect, mistakeCount,
                     currentWordIndex, currentWords>>]_vars

(***************************************************************************)
(* Notions used by the properties of findAWord.                            *)
(***************************************************************************)
\* the words appended to the queue in this step
Appended == {n \in DOMAIN currentWords' : n > Len(currentWords)}

\* the newest symbol of the active pool
Newest == currentLettersInPlay[Len(currentLettersInPlay)]

\* the corpus words made only of pool symbols
PoolWords == {n \in DOMAIN words : onlyTheseLetters(words[n], currentLettersInPlay)}

(***************************************************************************)
(* C10: every word findAWord returns (every word appended to the queue)    *)
(* is made only of symbols of the active pool of that moment.              *)
(***************************************************************************)
C10_WordWithinPool ==
    [][\A n \in (Len(currentWords) + 1)..Len(currentWords') :
          onlyTheseLetters(currentWords'[n].myLetters, currentLettersInPlay')]_vars

(***************************************************************************)
(* C11: whenever the newest pool symbol has a score below                  *)
(* LEARNED_THRESHOLD (0 and negative scores included) and the corpus has a *)
(* word made only of pool symbols that contains it, the word findAWord     *)
(* returns contains that symbol.                                           *)
(***************************************************************************)
C11_NewestPreferred ==
    [][(/\ letterScoreDict[Newest] < LEARNED_THRESHOLD
        /\ \E n \in PoolWords : Newest \in Range(words[n]))
       => \A n \in Appended : Newest \in Range(currentWords'[n].myLetters)]_vars

(***************************************************************************)
(* C12: the playHints call of a wrong turn's hint chain calls, for the     *)
(* mistake count n it is given, the players of the tier of n mod 4 and no  *)
(* others: 0 -> playMorse then playLetterSoundAlike, 1 -> none,            *)
(* 2 -> playMorse only, 3 -> playLetterSoundAlike only.                    *)
(***************************************************************************)
C12_TierByMod4 ==
    [][\A i \in Suspended("hintWrong") :
          (turns' = Remove(turns, i)) =>
             LET l == letterAt(currentWords[turns[i].word + 1])
                 M == [player |-> "playMorse", letter |-> l]
                 S == [player |-> "playLetterSoundAlike", letter |-> l]
                 r == mistakeCount % 4
             IN  played' = CASE r = 0 -> <<M, S>>
                             [] r = 1 -> << >>
                             [] r = 2 -> <<M>>
                             [] r = 3 -> <<S>>]_vars

\* playHints has run with a mistake count of 7 and called the mnemonic only
C12_Witness ==
    /\ mistakeCount = 7
    /\ turns = << >>
    /\ Len(played) = 1
    /\ played[1].player = "playLetterSoundAlike"

(***************************************************************************)
(* C13 as stated: once the initial words are made the queue holds at least *)
(* howManyWordsToStart words, and a word is appended exactly in the steps  *)
(* in which the cursor advances onto the second-to-last word of the queue. *)
(***************************************************************************)
C13_AppendOnSecondToLast ==
    [][~wordsTimer =>
         /\ Len(currentWords') >= howManyWordsToStart
         /\ Len(currentWords') = Len(currentWords) + 1
               <=> /\ currentWordIndex' = currentWordIndex + 1
                   /\ currentWordIndex' = Len(currentWords') - 2]_vars

(***************************************************************************)
(* C13 amended: once the initial words are made the queue holds at least   *)
(* howManyWordsToStart words and the cursor stands on a word before the    *)
(* last one; exactly one word is appended exactly in the steps in which    *)
(* the cursor advances onto the last word of the queue, which makes that   *)
(* word the second-to-last.                                                *)
(***************************************************************************)
C13_AppendOnLast ==
    [][~wordsTimer =>
         /\ Len(currentWords') >= howManyWordsToStart
         /\ currentWordIndex' <= Len(currentWords') - 2
         /\ Len(currentWords') \in {Len(currentWords), Len(currentWords) + 1}
         /\ Len(currentWords') = Len(currentWords) + 1
               <=> /\ currentWordIndex' = currentWordIndex + 1
                   /\ currentWordIndex' = Len(currentWords) - 1]_vars

\* the cursor has advanced onto the third of the three initial words and a
\* fourth word has been appended
C13_Witness ==
    /\ ~wordsTimer
    /\ currentWordIndex = 2
    /\ Len(currentWords) = howManyWordsToStart + 1

(***************************************************************************)
(* C14: every persisted score map holds only scores within                 *)
(* [-(T+2), T+2], and whenever no turn is being evaluated (each score      *)
(* mutation of the finished turns has been followed by its save) the       *)
(* persisted map equals the map in memory.                                 *)
(***************************************************************************)
C14_PersistedInRangeAndCurrent ==
    /\ \A k \in DOMAIN saved : MinScore <= saved[k] /\ saved[k] <= MaxScore
    /\ Evaluating = {} => saved = letterScoreDict

(***************************************************************************)
(* C15: a turn evaluated as a match adds exactly 1 to correct[expected]    *)
(* and one evaluated as a mismatch adds exactly 1 to wrong[expected],      *)
(* expected being the symbol under the cursor; every other counter keeps   *)
(* its value in that step, and no other step changes any counter.          *)
(***************************************************************************)
C15_OneCounterPerTurn ==
    [][/\ (Submitted /\ last'.op = "correct") =>
              analyticsData' = [analyticsData EXCEPT ![Expected].correct = @ + 1]
       /\ (Submitted /\ last'.op = "wrong") =>
              analyticsData' = [analyticsData EXCEPT ![Expected].wrong = @ + 1]
       /\ ~(Submitted /\ last'.op \in {"correct", "wrong"}) =>
              analyticsData' = analyticsData]_vars

\* two mismatches on "a" have been counted while its score stayed at -(T+2)
C15_Witness ==
    /\ "a" \in DOMAIN analyticsData
    /\ analyticsData["a"].wrong = 2
    /\ analyticsData["a"].correct = 0
    /\ letterScoreDict["a"] = MinScore

(***************************************************************************)
(* C16: an accepted submission with a symbol under the cursor is evaluated *)
(* whether or not its analytics counter can be recorded: either the        *)
(* symbol's score goes up by 1 (capped), the streak goes up by 1 and the   *)
(* cursor moves one symbol forward, or the score goes down by 1 (floored), *)
(* the streak is reset, the mistake count goes up by 1 and the cursor      *)
(* stays.                                                                  *)
(***************************************************************************)
C16_AnalyticsFailureKeepsTurn ==
    [][(Submitted /\ inputReady /\ CursorOnSymbol(currentWords, currentWordIndex)) =>
         LET e == Expected
         IN  \/ /\ letterScoreDict'[e] = IF letterScoreDict[e] + 1 > MaxScore THEN MaxScore
                                          ELSE letterScoreDict[e] + 1
                /\ consecutiveCorrect' = consecutiveCorrect + 1
                /\ CursorPos(currentWords', currentWordIndex')
                       = CursorPos(currentWords, currentWordIndex) + 1
             \/ /\ letterScoreDict'[e] \in {letterScoreDict[e] - 1, MinScore}
                /\ consecutiveCorrect' = 0
                /\ mistakeCount' = mistakeCount + 1
                /\ UNCHANGED <<currentWords, currentWordIndex>>]_vars

(***************************************************************************)
(* C17: every call of addAWord appends exactly one word, the word is never *)
(* empty, and it is the default word when the corpus is empty or has no    *)
(* word made of pool symbols.                                              *)
(***************************************************************************)
C17_AlwaysAWord ==
    [][/\ Len(currentWords') = Len(currentWords) + 1
       /\ \A n \in Appended :
             /\ Len(currentWords'[n].myLetters) > 0
             /\ PoolWords = {} => currentWords'[n].myLetters = defaultWord]_vars

\* the default word has been returned for a corpus without a word of pool
\* symbols
C17_Witness ==
    /\ words = << <<"i", "c", "e">> >>
    /\ currentLettersInPlay = SubSeq(Course, 1, 3)
    /\ Len(currentWords) > 0
    /\ currentWords[1].myLetters = defaultWord

(***************************************************************************)
(* C18: whenever the gate is closed it is open again later, provided the   *)
(* awaited sound delays end: after a correct turn, after an incorrect      *)
(* turn and after a lookup that throws.                                    *)
(***************************************************************************)
C18_GateRearmed == ~inputReady ~> inputReady

\* the resumption of a correct turn has re-armed the gate it had closed
C18_Witness ==
    /\ last.op = "resumeCorrect"
    /\ inputReady
    /\ Evaluating = {}
    /\ have_speech_assistive

(***************************************************************************)
(* C19: the active pool holds at least 3 symbols in every state, and at    *)
(* session start (before the initial words are made) it consists of the    *)
(* learned keys of the score map, together with the first three course     *)
(* symbols when fewer than three keys are learned.                         *)
(***************************************************************************)
C19_PoolAtLeastThree ==
    LET learned == {k \in DOMAIN letterScoreDict : letterScoreDict[k] >= LEARNED_THRESHOLD}
    IN  /\ Len(currentLettersInPlay) >= 3
        /\ wordsTimer =>
              Range(currentLettersInPlay) =
                 IF Cardinality(learned) < 3
                 THEN learned \cup {Course[1], Course[2], Course[3]}
                 ELSE learned

\* a session started with "i" as the only learned symbol plays with i, e, t, a
C19_Witness ==
    /\ ~wordsTimer
    /\ calls > 0
    /\ currentLettersInPlay = <<"i", "e", "t", "a">>

(***************************************************************************)
(* C20: a checkAddLetters timer changes the pool only if, when it fires,   *)
(* the last pool symbol that belongs to the course has a score of at least *)
(* LEARNED_THRESHOLD and the streak is at least CONSECUTIVE_CORRECT; when  *)
(* it grows the pool it resets the streak to 0; when one of the two        *)
(* conditions fails it leaves pool and streak as they are.                 *)
(***************************************************************************)
C20_AddLettersConditions ==
    [][addLettersTimers' = addLettersTimers - 1 =>
         LET inCourse == SelectSeq(currentLettersInPlay, LAMBDA l : l \in Range(Course))
             lastLearned == /\ Len(inCourse) > 0
                            /\ letterScoreDict[inCourse[Len(inCourse)]] >= LEARNED_THRESHOLD
             streakReached == consecutiveCorrect >= CONSECUTIVE_CORRECT
         IN  /\ currentLettersInPlay' # currentLettersInPlay => lastLearned /\ streakReached
             /\ Len(currentLettersInPlay') > Len(currentLettersInPlay) => consecutiveCorrect' = 0
             /\ ~(lastLearned /\ streakReached) =>
                    UNCHANGED <<currentLettersInPlay, consecutiveCorrect>>]_vars

\* every timer has fired, the last one with the streak reached and the newest
\* symbol "a" not learned: the pool is the one of the session start
C20_Witness ==
    /\ ~wordsTimer
    /\ addLettersTimers = 0
    /\ Len(currentWords) = howManyWordsToStart + 2
    /\ consecutiveCorrect = CONSECUTIVE_CORRECT
    /\ letterScoreDict["a"] < LEARNED_THRESHOLD
    /\ currentLettersInPlay = SubSeq(Course, 1, 3)

(***************************************************************************)
(* Notions used by the properties of checkAddLetters.                      *)
(***************************************************************************)
\* a checkAddLetters timer fires in this step
TimerFires == addLettersTimers' = addLettersTimers - 1

\* the first symbol in course order that the pool does not hold
NextSymbol(pool) ==
    Course[CHOOSE n \in DOMAIN Course :
              /\ Course[n] \notin Range(pool)
              /\ \A m \in 1..(n - 1) : Course[m] \in Range(pool)]

\* the pool holds every symbol of the course
PoolComplete(pool) == Range(Course) \subseteq Range(pool)

(***************************************************************************)
(* C21: a checkAddLetters timer that makes the pool longer adds exactly    *)
(* one symbol to it, the first symbol in course order the pool did not     *)
(* hold; no symbol leaves the pool, and every queued word made of pool     *)
(* symbols is still made of pool symbols afterwards; for every pool        *)
(* loadLetters can build, a prefix of the course order or not.             *)
(***************************************************************************)
C21_GrowsByNextSymbol ==
    [][(TimerFires /\ Len(currentLettersInPlay') > Len(currentLettersInPlay)) =>
         /\ Len(currentLettersInPlay') = Len(currentLettersInPlay) + 1
         /\ Range(currentLettersInPlay') =
               Range(currentLettersInPlay) \cup {NextSymbol(currentLettersInPlay)}
         /\ \A n \in DOMAIN currentWords :
               onlyTheseLetters(currentWords[n].myLetters, currentLettersInPlay)
                  => onlyTheseLetters(currentWords[n].myLetters, currentLettersInPlay')
      ]_vars

(***************************************************************************)
(* C22: a checkAddLetters timer that fires while the pool holds every      *)
(* symbol of the course changes neither the pool nor the streak, whatever  *)
(* the score of the last symbol and the streak are.                        *)
(***************************************************************************)
C22_FullPoolNoOp ==
    [][(TimerFires /\ PoolComplete(currentLettersInPlay)) =>
         UNCHANGED <<currentLettersInPlay, consecutiveCorrect>>]_vars

(***************************************************************************)
(* C23: whenever the newest pool symbol has a score below                  *)
(* LEARNED_THRESHOLD, no corpus word made only of pool symbols contains    *)
(* it, and the corpus (of non-empty words) has a word made only of pool    *)
(* symbols, the word findAWord returns is such a corpus word, not the      *)
(* default word.                                                           *)
(***************************************************************************)
C23_FallsBackToPoolWord ==
    [][(/\ letterScoreDict[Newest] < LEARNED_THRESHOLD
        /\ \A n \in DOMAIN words : words[n] # << >>
        /\ \A n \in PoolWords : Newest \notin Range(words[n])
        /\ PoolWords # {})
       => \A n \in Appended :
             \E m \in PoolWords : currentWords'[n].myLetters = words[m]]_vars

(***************************************************************************)
(* Notions used by the properties of the hint chains.                      *)
(***************************************************************************)
\* the suspended calls that stand in their hint chain
HintChains == {i \in DOMAIN turns : turns[i].pc \in {"hintCorrect", "hintWrong"}}

\* the hint chain of call i ends in this step with its playHints call
ChainEnds(i) == turns' = Remove(turns, i)

\* the players of the hint tier of n consecutive mistakes, for letter l
TierOf(n, l) ==
    LET M == [player |-> "playMorse", letter |-> l]
        S == [player |-> "playLetterSoundAlike", letter |-> l]
    IN  CASE n % 4 = 0 -> <<M, S>>
          [] n % 4 = 1 -> << >>
          [] n % 4 = 2 -> <<M>>
          [] n % 4 = 3 -> <<S>>

(***************************************************************************)
(* C24: the hint chain of an incorrect turn calls the players of the tier  *)
(* of k, the mistake count that turn produced (1 -> none, 2 -> playMorse,  *)
(* 3 -> playLetterSoundAlike, 4 -> both), for the symbol that was expected *)
(* in that turn, whatever submissions were accepted in between.            *)
(***************************************************************************)
C24_TierOfOwnTurn ==
    [][\A i \in Suspended("hintWrong") :
          ChainEnds(i) => played' = TierOf(turns[i].attempts, turns[i].letter)]_vars

(***************************************************************************)
(* C25: a hint chain that ends after a later turn has moved the cursor     *)
(* away from the chain's symbol (to another word, or to another symbol of  *)
(* its word) starts no dash, period or sound-alike sound.                  *)
(***************************************************************************)
C25_StaleChainIsSilent ==
    [][\A i \in HintChains :
          (/\ ChainEnds(i)
           /\ \/ turns[i].word # currentWordIndex
              \/ letterAt(currentWords[turns[i].word + 1]) # turns[i].letter)
          => soundsStarted(played', have_audio, have_speech_assistive) = << >>]_vars

(***************************************************************************)
(* C26: a call enters its hint chain only in a step that leaves the gate   *)
(* open, and a submission made while hint chains are pending and no turn   *)
(* is being evaluated is accepted and evaluated, not dropped.              *)
(***************************************************************************)
C26_GateOpenBeforeHints ==
    [][/\ Cardinality(HintChains') > Cardinality(HintChains) => inputReady'
       /\ (Submitted /\ HintChains # {} /\ Evaluating = {}) =>
             /\ inputReady
             /\ last'.op \in {"correct", "wrong", "threw"}]_vars

\* a second wrong answer has been evaluated while the hint chain of the
\* first one is still pending
C26_Witness ==
    /\ calls = 2
    /\ last.op = "wrong"
    /\ mistakeCount = 2
    /\ Cardinality(Suspended("hintWrong")) = 2

(***************************************************************************)
(* C27: an accepted submission that finds no word at the cursor (the       *)
(* initial words are not made yet) or no symbol under the cursor of the    *)
(* word changes no score, analytics counter, streak, mistake count, cursor *)
(* or queue, and leaves the gate open.                                     *)
(***************************************************************************)
C27_FailedLookupChangesNothing ==
    [][(Submitted /\ inputReady /\ ~CursorOnSymbol(currentWords, currentWordIndex)) =>
         /\ UNCHANGED <<letterScoreDict, analyticsData, consecutiveCorrect, mistakeCount,
                        currentWordIndex, currentWords, currentLettersInPlay>>
         /\ inputReady']_vars

\* a submission has found the cursor of the current word past its last
\* symbol (a correct turn is waiting for its feedback sound) and has thrown
C27_Witness ==
    /\ last.op = "threw"
    /\ inputReady
    /\ DOMAIN analyticsData # {}
    /\ currentWordIndex < Len(currentWords)
    /\ letterAt(currentWords[currentWordIndex + 1]) = undefined

(***************************************************************************)
(* C28 as stated: when a turn appends a word while the growth check is due *)
(* (after the turn's own updates the last course symbol of the pool is     *)
(* learned, the streak has reached CONSECUTIVE_CORRECT and the pool is     *)
(* smaller than the course), the pool has grown by the time the word is    *)
(* appended.                                                               *)
(***************************************************************************)
C28_GrowthBeforeRefill ==
    [][(/\ ~wordsTimer
        /\ Appended # {}
        /\ consecutiveCorrect' >= CONSECUTIVE_CORRECT
        /\ Len(currentLettersInPlay) < Len(Course)
        /\ LET inCourse == SelectSeq(currentLettersInPlay, LAMBDA l : l \in Range(Course))
           IN  /\ Len(inCourse) > 0
               /\ IsLearned(letterScoreDict', inCourse[Len(inCourse)]))
       => Len(currentLettersInPlay') = Len(currentLettersInPlay) + 1]_vars

(***************************************************************************)
(* C28 amended: a turn that appends a word leaves the pool as it is, and   *)
(* the appended word is the default word or made only of symbols of the    *)
(* pool of before the turn; the pool gets longer only in a step of a       *)
(* checkAddLetters timer, which appends no word.                           *)
(***************************************************************************)
C28_RefillBeforeGrowth ==
    [][/\ (~wordsTimer /\ Appended # {}) =>
             /\ currentLettersInPlay' = currentLettersInPlay
             /\ \A n \in Appended :
                   \/ currentWords'[n].myLetters = defaultWord
                   \/ onlyTheseLetters(currentWords'[n].myLetters, currentLettersInPlay)
       /\ Len(currentLettersInPlay') > Len(currentLettersInPlay) =>
             /\ TimerFires
             /\ currentWords' = currentWords]_vars

\* the third correct answer in a row has appended a word while the newest
\* symbol "a" was learned, and the pool is still the one of the session start
C28_Witness ==
    /\ ~wordsTimer
    /\ calls = 3
    /\ last.op \in {"correct", "resumeCorrect"}
    /\ consecutiveCorrect = CONSECUTIVE_CORRECT
    /\ Len(currentWords) = howManyWordsToStart + 2
    /\ letterScoreDict["a"] >= LEARNED_THRESHOLD
    /\ currentLettersInPlay = SubSeq(Course, 1, 3)
    /\ addLettersTimers > 0

(***************************************************************************)
(* C30: once the initial words are made, in every state in which the gate  *)
(* is open the cursor stands on a word of the queue and on a symbol of     *)
(* that word: 0 <= currentWordIndex < Len(currentWords) and                *)
(* 0 <= currentLetterIndex < the length of the current word.               *)
(***************************************************************************)
C30_CursorDefinedWhenGateOpen ==
    (~wordsTimer /\ inputReady) =>
        /\ 0 <= currentWordIndex
        /\ currentWordIndex < Len(currentWords)
        /\ 0 <= currentWords[currentWordIndex + 1].currentLetterIndex
        /\ currentWords[currentWordIndex + 1].currentLetterIndex
              < Len(currentWords[currentWordIndex + 1].myLetters)

(***************************************************************************)
(* C29: whenever create has run and the initial words of the session are   *)
(* not made yet (for the first session and for a restarted one), the word  *)
(* queue is empty, currentWordIndex is 0 and the mistake and streak        *)
(* counters are 0.                                                         *)
(***************************************************************************)
C29_RestartResetsTurnState ==
    wordsTimer =>
        /\ currentWords = << >>
        /\ currentWordIndex = 0
        /\ mistakeCount = 0
        /\ consecutiveCorrect = 0

(***************************************************************************)
(* MorseBoard (src/scripts/morse-board.js) with notificationStyle "output", *)
(* as GameSpace and PracticeState configure it. Time is counted in units   *)
(* of 300 ms: a pending timer carries the delay it has left, timers that   *)
(* are due fire before time passes, and a click or a key may come at any   *)
(* moment.                                                                 *)
(***************************************************************************)
\* config.debounce of the board of PracticeState, 1500 ms
debounce == 5

\* how much sooner than config.debounce the notification is hidden, 300 ms
notificationLead == 1

\* longest sequence of dots and dashes entered before a commit (BoardSpec)
MaxSymbols == 2

\* number of timers of the board pending at once (BoardSpec)
MaxPending == 3

dot == "."
dash == "-"

\* the mark showNotification writes for a sequence that decodes to no letter
wrongMark == "wrong-mark"

\* morseToEnglish, the codes of up to three symbols; a key that is not a
\* code (the notification text among them) reads as undefined
morseDictionary(symbol) ==
    CASE symbol = <<dot>> -> "e"
      [] symbol = <<dash>> -> "t"
      [] symbol = <<dot, dot>> -> "i"
      [] symbol = <<dot, dash>> -> "a"
      [] symbol = <<dash, dot>> -> "n"
      [] symbol = <<dash, dash>> -> "m"
      [] symbol = <<dot, dot, dot>> -> "s"
      [] symbol = <<dot, dot, dash>> -> "u"
      [] symbol = <<dot, dash, dot>> -> "r"
      [] symbol = <<dot, dash, dash>> -> "w"
      [] symbol = <<dash, dot, dot>> -> "d"
      [] symbol = <<dash, dot, dash>> -> "k"
      [] symbol = <<dash, dash, dot>> -> "g"
      [] symbol = <<dash, dash, dash>> -> "o"
      [] OTHER -> undefined

\* clearTimeout: the timer named by the handle, if it is pending, is dropped
clearTimeout(pending, handle) == {t \in pending : t.id # handle}

\* setTimeout returns an id that names no other timer and is held by no handle
setTimeoutId(pending, board) ==
    LET used == {t.id : t \in pending} \cup
                {board.timeout, board.outputStyleTimeout, board.outputStyleHideTimeout}
    IN  CHOOSE n \in 1..(Cardinality(used) + 1) :
            n \notin used /\ \A m \in 1..(n - 1) : m \in used

slice(value) == IF value = << >> THEN << >> ELSE SubSeq(value, 1, Len(value) - 1)

\* commit (the listener of the "commit" event) run on the event detail:
\* showNotification arms the 0 ms timer that will write the letter or the
\* wrong mark, the output is emptied and the detail is handed to onCommit
commit(pending, board, detail) ==
    LET id == setTimeoutId(pending, board)
        notify == [id |-> id, fn |-> "notify", due |-> 0,
                   text |-> IF detail.letter # undefined THEN detail.letter ELSE wrongMark]
    IN  /\ boardTimers' = pending \cup {notify}
        /\ morseBoard' = [board EXCEPT !.outputStyleTimeout = id, !.output = << >>]
        /\ boardLog' = [entered |-> << >>, delivered |-> <<detail>>]

\* the body shared by commitCurrentSequence and the debounce callback: a
\* non-empty output is dispatched as a commit event, an empty one is not
dispatchCommit(pending, board) ==
    IF board.output # << >>
    THEN commit(pending, board,
                [symbol |-> board.output, letter |-> morseDictionary(board.output)])
    ELSE /\ boardTimers' = pending
         /\ morseBoard' = board
         /\ boardLog' = [boardLog EXCEPT !.delivered = << >>]

\* a click on the dot or the dash button (or the key that clicks it)
onClick(button) ==
    LET shown == morseBoard.outputStyleTimeout # noTimer
        pending1 == IF shown
                    THEN clearTimeout(clearTimeout(boardTimers, morseBoard.outputStyleTimeout),
                                      morseBoard.outputStyleHideTimeout)
                    ELSE boardTimers
        board1 == IF shown
                  THEN [morseBoard EXCEPT !.outputStyleTimeout = noTimer,
                                          !.outputStyleHideTimeout = noTimer,
                                          !.output = << >>]
                  ELSE morseBoard
        pending2 == clearTimeout(pending1, board1.timeout)
        id == setTimeoutId(pending2, board1)
    IN  /\ Len(boardLog.entered) < MaxSymbols
        /\ Len(board1.output) < MaxSymbols
        /\ Cardinality(pending2) < MaxPending
        /\ morseBoard' = [board1 EXCEPT !.output = Append(board1.output, button),
                                        !.timeout = id]
        /\ boardTimers' = pending2 \cup {[id |-> id, fn |-> "debounce", due |-> debounce,
                                          text |-> ""]}
        /\ boardLog' = [entered |-> Append(boardLog.entered, button), delivered |-> << >>]
        /\ UNCHANGED <<gameSpaceVars, have_speech_assistive, have_audio, titleVars,
                       practiceState, metrics>>

\* the delete key
deleteLastSymbol ==
    /\ morseBoard.output # << >>
    /\ morseBoard' = [morseBoard EXCEPT !.output = slice(morseBoard.output)]
    /\ boardLog' = [entered |-> slice(boardLog.entered), delivered |-> << >>]
    /\ UNCHANGED <<gameSpaceVars, have_speech_assistive, have_audio, boardTimers, titleVars,
                   practiceState, metrics>>

\* the commit key
commitCurrentSequence ==
    /\ Cardinality(boardTimers) < MaxPending
    /\ dispatchCommit(clearTimeout(boardTimers, morseBoard.timeout), morseBoard)
    /\ UNCHANGED <<gameSpaceVars, have_speech_assistive, have_audio, titleVars,
                   practiceState, metrics>>

Due(fn) == {t \in boardTimers : t.fn = fn /\ t.due = 0}

\* the callback of the debounce timer
DebounceFires ==
    \E t \in Due("debounce") :
        /\ dispatchCommit(boardTimers \ {t}, morseBoard)
        /\ UNCHANGED <<gameSpaceVars, have_speech_assistive, have_audio, titleVars,
                       practiceState, metrics>>

\* the 0 ms callback of showNotification: it writes the notification into
\* the output field and arms the timer that hides it
NotifyFires ==
    \E t \in Due("notify") :
        LET pending == boardTimers \ {t}
            id == setTimeoutId(pending, morseBoard)
        IN  /\ morseBoard' = [morseBoard EXCEPT !.output = <<t.text>>,
                                                !.outputStyleHideTimeout = id]
            /\ boardTimers' = pending \cup {[id |-> id, fn |-> "hide",
                                             due |-> debounce - notificationLead,
                                             text |-> ""]}
            /\ boardLog' = [boardLog EXCEPT !.delivered = << >>]
            /\ UNCHANGED <<gameSpaceVars, have_speech_assistive, have_audio, titleVars,
                           practiceState, metrics>>

\* the callback that hides the notification
HideFires ==
    \E t \in Due("hide") :
        /\ morseBoard' = [morseBoard EXCEPT !.output = << >>]
        /\ boardTimers' = boardTimers \ {t}
        /\ boardLog' = [boardLog EXCEPT !.delivered = << >>]
        /\ UNCHANGED <<gameSpaceVars, have_speech_assistive, have_audio, titleVars,
                       practiceState, metrics>>

\* 300 ms pass: only when no pending timer is due
Tick ==
    /\ boardTimers # {}
    /\ \A t \in boardTimers : t.due > 0
    /\ boardTimers' = {[t EXCEPT !.due = t.due - 1] : t \in boardTimers}
    /\ boardLog' = [boardLog EXCEPT !.delivered = << >>]
    /\ UNCHANGED <<gameSpaceVars, have_speech_assistive, have_audio, morseBoard, titleVars,
                   practiceState, metrics>>

\* GameSpace before create, next to the board
GameSpaceIdleWith(savedLetters) ==
    /\ letterScoreDict = ScoreMap(0, 0, 0, 0, 0)
    /\ currentLettersInPlay = << >>
    /\ currentWords = << >>
    /\ currentWordIndex = 0
    /\ mistakeCount = 0
    /\ consecutiveCorrect = 0
    /\ inputReady = TRUE
    /\ words = << >>
    /\ analyticsData = EMPTY_ANALYTICS
    /\ saved = savedLetters
    /\ played = << >>
    /\ turns = << >>
    /\ addLettersTimers = 0
    /\ wordsTimer = FALSE
    /\ gameState = "title"
    /\ calls = 0
    /\ last = [op |-> "none", learned |-> "none"]

GameSpaceIdle == GameSpaceIdleWith(ScoreMap(0, 0, 0, 0, 0))

BoardInit ==
    /\ GameSpaceIdle
    /\ have_speech_assistive = TRUE
    /\ have_audio = TRUE
    /\ morseBoard = newMorseBoard
    /\ boardTimers = {}
    /\ boardLog = newBoardLog
    /\ titleState = newTitleState
    /\ localStorage = emptyStorage
    /\ titleRun = newTitleRun
    /\ practiceState = newPracticeState
    /\ metrics = noMetrics

BoardNext ==
    \/ \E button \in {dot, dash} : onClick(button)
    \/ deleteLastSymbol
    \/ commitCurrentSequence
    \/ DebounceFires
    \/ NotifyFires
    \/ HideFires
    \/ Tick

BoardSpec == BoardInit /\ [][BoardNext]_vars

(***************************************************************************)
(* Notions used by the properties of the board.                            *)
(***************************************************************************)
IsSymbols(value) == \A n \in DOMAIN value : value[n] \in {dot, dash}

\* the step hands a commit to onCommit
Delivers == boardLog'.delivered # << >>

BoardTimerFires == DebounceFires \/ NotifyFires \/ HideFires

(***************************************************************************)
(* C31: every entered sequence of dots and dashes is committed exactly     *)
(* once. While a sequence is entered and not committed it is the content   *)
(* of the output field and the debounce timer armed by its last click is   *)
(* pending (no other debounce timer is); a commit is dispatched only for a *)
(* non-empty output and leaves the output empty.                           *)
(***************************************************************************)
C31_EachSequenceCommittedOnce ==
    [][/\ Delivers => morseBoard.output # << >> /\ morseBoard'.output = << >>
       /\ \A t \in boardTimers' : t.fn = "debounce" => t.id = morseBoard'.timeout
       /\ boardLog'.entered # << >> =>
              /\ morseBoard'.output = boardLog'.entered
              /\ \E t \in boardTimers' : t.fn = "debounce" /\ t.id = morseBoard'.timeout
      ]_vars

(***************************************************************************)
(* C32: the symbol of every commit handed to onCommit is the sequence of   *)
(* dots and dashes entered since the previous commit, never the text of a  *)
(* notification; and no timer that fires removes entered dots or dashes    *)
(* from the output field without committing them.                          *)
(***************************************************************************)
C32_NotificationNeverCommitted ==
    [][/\ Delivers => /\ IsSymbols(boardLog'.delivered[1].symbol)
                      /\ boardLog'.delivered[1].symbol = boardLog.entered
       /\ (BoardTimerFires /\ ~Delivers /\ morseBoard.output # << >>
           /\ IsSymbols(morseBoard.output))
              => morseBoard'.output = morseBoard.output
      ]_vars

(***************************************************************************)
(* TitleState (src/unnamed/part_000): the consent answer, setupListeners,  *)
(* the sound and speech toggles (legacy and settings modal) and the start  *)
(* of the game or intro state. have_audio and have_speech_assistive are    *)
(* the copies on the game object here.                                     *)
(***************************************************************************)
\* number of keydown, click, touch and start-button events explored (TitleSpec)
MaxEvents == 3

\* localStorage.setItem stores a boolean as its string
stored(value) == IF value THEN "true" ELSE "false"

\* getBoolFromLocalStore on a stored value
getBoolFromLocalStore(value) == IF value = null THEN null ELSE value = "true"

\* the settings the consent dialog stores when "randomise" is ticked
randomiseSettings(audio, speechAssistive, visualCues) ==
    LET speech1 == IF audio = FALSE THEN FALSE ELSE speechAssistive
        audio1 == IF audio = FALSE /\ speech1 = FALSE /\ visualCues = FALSE
                  THEN TRUE ELSE audio
    IN  [have_audio |-> stored(audio1), have_speech_assistive |-> stored(speech1)]

\* updateAudioToggles: with the game's audio off, the game's speech hints go
\* off and the TitleState field is what is stored
updateAudioToggles(state, gameAudio, gameSpeech, storage) ==
    IF ~gameAudio
    THEN [speech |-> FALSE,
          storage |-> [storage EXCEPT
                           !.have_speech_assistive = stored(state.have_speech_assistive)]]
    ELSE [speech |-> gameSpeech, storage |-> storage]

\* setupListeners: unset settings default to true, the fields and the game
\* object take the stored values, the listeners of doStart are attached and
\* updateAudioToggles runs once
setupListeners(storage) ==
    LET storage1 == [storage EXCEPT
                        !.have_speech_assistive = IF @ = null THEN stored(TRUE) ELSE @,
                        !.have_audio = IF @ = null THEN stored(TRUE) ELSE @]
        initialAudio == getBoolFromLocalStore(storage1.have_audio)
        initialSpeechAssistive == getBoolFromLocalStore(storage1.have_speech_assistive)
        state1 == [titleState EXCEPT !.have_audio = initialAudio,
                                     !.have_speech_assistive = initialSpeechAssistive]
        u == updateAudioToggles(state1, initialAudio, initialSpeechAssistive, storage1)
    IN  /\ titleState' = state1
        /\ have_audio' = initialAudio
        /\ have_speech_assistive' = u.speech
        /\ localStorage' = u.storage
        /\ titleRun' = [titleRun EXCEPT !.consent = TRUE, !.listening = TRUE]

\* the consent dialog answered yes, with or without randomised settings
consentYes ==
    /\ ~titleRun.consent
    /\ \E randomise, audio, speechAssistive, visualCues \in BOOLEAN :
           LET r == randomiseSettings(audio, speechAssistive, visualCues)
           IN  setupListeners(IF randomise
                              THEN [localStorage EXCEPT
                                        !.have_audio = r.have_audio,
                                        !.have_speech_assistive = r.have_speech_assistive]
                              ELSE localStorage)
    /\ UNCHANGED <<gameSpaceVars, boardVars, practiceState, metrics>>

\* the consent dialog answered no
consentNo ==
    /\ ~titleRun.consent
    /\ setupListeners(localStorage)
    /\ UNCHANGED <<gameSpaceVars, boardVars, practiceState, metrics>>

\* a click on the legacy sound toggle
onSoundToggle ==
    /\ titleRun.consent
    /\ LET state1 == [titleState EXCEPT !.have_audio = ~titleState.have_audio]
           storage1 == [localStorage EXCEPT !.have_audio = stored(state1.have_audio)]
           u == updateAudioToggles(state1, state1.have_audio, have_speech_assistive, storage1)
       IN  /\ titleState' = state1
           /\ have_audio' = state1.have_audio
           /\ have_speech_assistive' = u.speech
           /\ localStorage' = u.storage
    /\ UNCHANGED <<gameSpaceVars, boardVars, titleRun, practiceState, metrics>>

\* a click on the legacy speech toggle
onSpeechToggle ==
    /\ titleRun.consent
    /\ LET state1 == [titleState EXCEPT
                          !.have_speech_assistive = ~titleState.have_speech_assistive]
           storage1 == [localStorage EXCEPT
                            !.have_speech_assistive = stored(state1.have_speech_assistive)]
           u == updateAudioToggles(state1, have_audio, state1.have_speech_assistive, storage1)
       IN  /\ titleState' = state1
           /\ have_speech_assistive' = u.speech
           /\ localStorage' = u.storage
    /\ UNCHANGED <<gameSpaceVars, have_audio, boardVars, titleRun, practiceState, metrics>>

\* a click on the sound toggle of the settings modal
modalSoundToggle ==
    /\ titleRun.consent
    /\ LET newState == ~titleState.have_audio
       IN  /\ titleState' = [titleState EXCEPT
                                 !.have_audio = newState,
                                 !.have_speech_assistive = IF ~newState THEN FALSE ELSE @]
           /\ have_audio' = newState
           /\ have_speech_assistive' = IF ~newState THEN FALSE ELSE have_speech_assistive
           /\ localStorage' = [localStorage EXCEPT
                                   !.have_audio = stored(newState),
                                   !.have_speech_assistive =
                                       IF ~newState THEN stored(FALSE) ELSE @]
    /\ UNCHANGED <<gameSpaceVars, boardVars, titleRun, practiceState, metrics>>

\* a click on the speech toggle of the settings modal
modalSpeechToggle ==
    /\ titleRun.consent
    /\ titleState.have_audio
    /\ LET newState == ~titleState.have_speech_assistive
       IN  /\ titleState' = [titleState EXCEPT !.have_speech_assistive = newState]
           /\ have_speech_assistive' = newState
           /\ localStorage' = [localStorage EXCEPT !.have_speech_assistive = stored(newState)]
    /\ UNCHANGED <<gameSpaceVars, have_audio, boardVars, titleRun, practiceState, metrics>>

\* start without its flag set at once: the guard stays open until a caller
\* sets hasStarted
startFlagLate(state, run) ==
    IF ~state.hasStarted
    THEN [state |-> state, run |-> [run EXCEPT !.thens = @ + 1]]
    ELSE [state |-> state, run |-> run]

\* start: the first call sets hasStarted and leaves the then-callback of
\* checkWatchedIntro pending; later calls do nothing
start(state, run) ==
    IF ~state.hasStarted
    THEN [state |-> [state EXCEPT !.hasStarted = TRUE],
          run |-> [run EXCEPT !.thens = @ + 1]]
    ELSE [state |-> state, run |-> run]

\* doStart, the handler of keydown, of a click on the canvas and of
\* touchstart on the canvas
doStart ==
    /\ titleRun.listening
    /\ titleRun.events < MaxEvents
    /\ IF titleState.hasStarted
       THEN /\ titleRun' = [titleRun EXCEPT !.events = @ + 1]
            /\ UNCHANGED <<titleState, have_audio, have_speech_assistive>>
       ELSE LET s == start(titleState, titleRun)
            IN  /\ have_audio' = titleState.have_audio
                /\ have_speech_assistive' = titleState.have_speech_assistive
                /\ titleState' = s.state
                /\ titleRun' = [s.run EXCEPT !.events = @ + 1, !.listening = FALSE]
    /\ UNCHANGED <<gameSpaceVars, boardVars, localStorage, practiceState, metrics>>

\* onInputDown of the start button, which exists while the title is shown
startButton ==
    /\ titleRun.stateStarts = << >>
    /\ titleRun.events < MaxEvents
    /\ IF ~titleState.hasStarted
       THEN LET s == start(titleState, titleRun)
            IN  /\ titleState' = [s.state EXCEPT !.hasStarted = TRUE]
                /\ titleRun' = [s.run EXCEPT !.events = @ + 1]
       ELSE /\ titleRun' = [titleRun EXCEPT !.events = @ + 1]
            /\ UNCHANGED titleState
    /\ UNCHANGED <<gameSpaceVars, have_audio, have_speech_assistive, boardVars, localStorage,
                   practiceState, metrics>>

\* the then-callback of checkWatchedIntro: the intro is marked as seen and
\* the 100 ms timer that starts the next state is armed
IntroChecked ==
    /\ titleRun.thens > 0
    /\ LET hasViewedIntro == localStorage.intro = "true"
           nextState == IF hasViewedIntro THEN "game" ELSE "intro"
       IN  /\ localStorage' = [localStorage EXCEPT
                                   !.intro = IF hasViewedIntro THEN @ ELSE "true"]
           /\ titleRun' = [titleRun EXCEPT !.thens = @ - 1,
                                           !.timers = Append(@, nextState)]
    /\ UNCHANGED <<gameSpaceVars, have_audio, have_speech_assistive, boardVars, titleState,
                   practiceState, metrics>>

\* the 100 ms timer: game.state.start(nextState)
StartTimer ==
    /\ titleRun.timers # << >>
    /\ titleRun' = [titleRun EXCEPT !.timers = Tail(@),
                                    !.stateStarts = Append(@, Head(titleRun.timers))]
    /\ UNCHANGED <<gameSpaceVars, have_audio, have_speech_assistive, boardVars, titleState,
                   localStorage, practiceState, metrics>>

TitleInit ==
    /\ GameSpaceIdle
    /\ have_speech_assistive = undefined
    /\ have_audio = undefined
    /\ morseBoard = newMorseBoard
    /\ boardTimers = {}
    /\ boardLog = newBoardLog
    /\ titleState = newTitleState
    /\ \E intro \in {null, "true"} : localStorage = [emptyStorage EXCEPT !.intro = intro]
    /\ titleRun = newTitleRun
    /\ practiceState = newPracticeState
    /\ metrics = noMetrics

TitleNext ==
    \/ consentYes
    \/ consentNo
    \/ onSoundToggle
    \/ onSpeechToggle
    \/ modalSoundToggle
    \/ modalSpeechToggle
    \/ doStart
    \/ startButton
    \/ IntroChecked
    \/ StartTimer

TitleSpec == TitleInit /\ [][TitleNext]_vars

(***************************************************************************)
(* C33: game.state.start is called at most once from the title screen,     *)
(* whatever keydown, click, touch and start-button events arrive and in    *)
(* whatever order: at most one start is under way or done at any time.     *)
(***************************************************************************)
C33_StartedAtMostOnce ==
    titleRun.thens + Len(titleRun.timers) + Len(titleRun.stateStarts) <= 1

\* the next state was started once although three start events arrived
C33_Witness ==
    /\ Len(titleRun.stateStarts) = 1
    /\ titleRun.events = MaxEvents

(***************************************************************************)
(* C34: once setupListeners has run, speech hints are on only with audio   *)
(* on, in the TitleState fields, on the game object and in localStorage,   *)
(* and the three copies of each setting agree.                             *)
(***************************************************************************)
C34_SpeechOnlyWithAudio ==
    titleRun.consent =>
        /\ titleState.have_speech_assistive => titleState.have_audio
        /\ have_speech_assistive => have_audio
        /\ localStorage.have_speech_assistive = "true" => localStorage.have_audio = "true"
        /\ have_audio = titleState.have_audio
        /\ localStorage.have_audio = stored(titleState.have_audio)
        /\ have_speech_assistive = titleState.have_speech_assistive
        /\ localStorage.have_speech_assistive = stored(titleState.have_speech_assistive)

(***************************************************************************)
(* PracticeState (src/scripts/practice-state.js): a session of six phrases *)
(* typed letter by letter; a phrase is the sequence of its characters.     *)
(***************************************************************************)
PHRASES_PER_SESSION == 6

\* number of inputs explored after the session is complete (PracticeSpec)
MaxLateInputs == 2

\* the first seven of the fifteen PRACTICE_PHRASES
PRACTICE_PHRASES ==
    <<
       <<"r", "e", "a", "d", " ", "t", "h", "e", " ", "c", "o", "d", "e">>,
       <<"s", "e", "n", "d", " ", "a", " ", "s", "i", "g", "n", "a", "l">>,
       <<"l", "e", "a", "r", "n", " ", "m", "o", "r", "s", "e", " ", "f", "a", "s", "t">>,
       <<"p", "r", "a", "c", "t", "i", "c", "e", " ", "e", "v", "e", "r", "y", " ", "d", "a",
       "y">>,
       <<"t", "a", "p", " ", "a", "n", "d", " ", "l", "i", "s", "t", "e", "n">>,
       <<"c", "o", "u", "n", "t", " ", "t", "o", " ", "t", "e", "n">>,
       <<"k", "e", "e", "p", " ", "i", "t", " ", "s", "i", "m", "p", "l", "e">>
    >>

\* the characters [a-z0-9] keeps, as far as the phrases and the inputs use them
Alphanumeric ==
    {"a", "b", "c", "d", "e", "f", "g", "h", "i", "j", "k", "l", "m", "n", "o", "p", "q",
     "r", "s", "t", "u", "v", "w", "x", "y", "z", "0", "1", "2", "3", "4", "5", "6", "7",
     "8", "9"}

\* normalizePhrase: the phrases are lower case already, the characters
\* outside [a-z0-9] (the blanks) are dropped
normalizePhrase(phrase) == SelectSeq(phrase, LAMBDA ch : ch \in Alphanumeric)

\* the outcomes of the shuffle explored: the list as it is, reversed, and
\* rotated by three
PracticeShuffles ==
    LET n == Len(PRACTICE_PHRASES)
    IN  { PRACTICE_PHRASES,
          [k \in 1..n |-> PRACTICE_PHRASES[n + 1 - k]],
          [k \in 1..n |-> PRACTICE_PHRASES[((k + 2) % n) + 1]] }

\* pickSessionPhrases: the first six phrases of the shuffled list
pickSessionPhrases(shuffled) == SubSeq(shuffled, 1, PHRASES_PER_SESSION)

\* getCurrentTarget: the normalized current phrase, empty past the last one
getCurrentTarget(state) ==
    IF state.currentPhraseIndex + 1 \in DOMAIN state.sessionPhrases
    THEN normalizePhrase(state.sessionPhrases[state.currentPhraseIndex + 1])
    ELSE << >>

\* the letters a commit can hand to handleInput: a decoded letter or "" for
\* a sequence that decodes to none
PracticeLetters == {"e", "t", "a", "s", "z", ""}

finishSession(state) ==
    [state EXCEPT !.sessionComplete = TRUE, !.finished = @ + 1]

\* advancePhrase that ends the session one phrase too late
advancePhraseLate(state) ==
    LET next == [state EXCEPT !.currentPhraseIndex = @ + 1, !.currentCharIndex = 0]
    IN  IF next.currentPhraseIndex > Len(next.sessionPhrases)
        THEN finishSession(next)
        ELSE next

advancePhrase(state) ==
    LET next == [state EXCEPT !.currentPhraseIndex = @ + 1, !.currentCharIndex = 0]
    IN  IF next.currentPhraseIndex >= Len(next.sessionPhrases)
        THEN finishSession(next)
        ELSE next

\* handleInput that does not skip a wrong letter
handleInputRetry(state, letter) ==
    LET target == getCurrentTarget(state)
    IN  IF state.sessionComplete \/ target = << >> \/ state.currentCharIndex >= Len(target)
        THEN state
        ELSE IF letter # target[state.currentCharIndex + 1]
        THEN [state EXCEPT !.totalErrors = @ + 1, !.accepted = @ + 1]
        ELSE LET typed == [state EXCEPT !.currentCharIndex = @ + 1, !.accepted = @ + 1]
             IN  IF typed.currentCharIndex >= Len(target) THEN advancePhrase(typed)
                 ELSE typed

\* handleInput: the state it leaves
handleInput(state, letter) ==
    LET target == getCurrentTarget(state)
    IN  IF state.sessionComplete \/ target = << >> \/ state.currentCharIndex >= Len(target)
        THEN state
        ELSE LET expected == target[state.currentCharIndex + 1]
                 correct == letter = expected
                 typed == [state EXCEPT
                               !.totalErrors = IF correct THEN @ ELSE @ + 1,
                               !.currentCharIndex = @ + 1,
                               !.accepted = @ + 1]
             IN  IF typed.currentCharIndex >= Len(target) THEN advancePhrase(typed)
                 ELSE typed

\* the total number of characters of the normalized phrases of a session
RECURSIVE TotalCharacters(_)
TotalCharacters(phrases) ==
    IF phrases = << >> THEN 0
    ELSE Len(normalizePhrase(Head(phrases))) + TotalCharacters(Tail(phrases))

\* init: the practice state is started, from the title or by "Practice Again"
init ==
    /\ practiceState.sessionPhrases = << >> \/ practiceState.sessionComplete
    /\ \E shuffled \in PracticeShuffles :
           practiceState' = [newPracticeState EXCEPT
                                 !.sessionPhrases = pickSessionPhrases(shuffled)]
    /\ UNCHANGED <<gameSpaceVars, have_speech_assistive, have_audio, boardVars, titleVars,
                   metrics>>

\* onCommit of the board of PracticeState
PracticeInput(letter) ==
    /\ practiceState.sessionPhrases # << >>
    /\ practiceState.inputs <
           TotalCharacters(practiceState.sessionPhrases) + MaxLateInputs
    /\ practiceState' = [handleInput(practiceState, letter) EXCEPT !.inputs = @ + 1]
    /\ UNCHANGED <<gameSpaceVars, have_speech_assistive, have_audio, boardVars, titleVars,
                   metrics>>

PracticeInit ==
    /\ GameSpaceIdle
    /\ have_speech_assistive = TRUE
    /\ have_audio = TRUE
    /\ OutsideIdle

PracticeNext ==
    \/ init
    \/ \E letter \in PracticeLetters : PracticeInput(letter)

PracticeSpec == PracticeInit /\ [][PracticeNext]_vars

(***************************************************************************)
(* Notions used by the properties of the practice sessions.                *)
(***************************************************************************)
\* the step is handleInput(letter) on a session that is not complete
HandlesInput(letter) ==
    /\ PracticeInput(letter)
    /\ ~practiceState.sessionComplete

ExpectedCharacter == getCurrentTarget(practiceState)[practiceState.currentCharIndex + 1]

LastOfPhrase == practiceState.currentCharIndex + 1 = Len(getCurrentTarget(practiceState))

(***************************************************************************)
(* C35 as stated: while the session is not complete every handleInput call *)
(* leaves currentCharIndex one higher, whether or not the letter matches,  *)
(* and totalErrors one higher if and only if it does not match.            *)
(***************************************************************************)
C35_AdvancesCharIndexByOne ==
    [][\A letter \in PracticeLetters :
           HandlesInput(letter) =>
               /\ practiceState'.currentCharIndex = practiceState.currentCharIndex + 1
               /\ practiceState'.totalErrors =
                      practiceState.totalErrors + IF letter = ExpectedCharacter THEN 0 ELSE 1
      ]_vars

(***************************************************************************)
(* C35 amended: while the session is not complete every handleInput call   *)
(* moves on by exactly one character whether or not the letter matches -   *)
(* currentCharIndex one higher within a phrase, and on the last character  *)
(* of a phrase currentCharIndex back to 0 with currentPhraseIndex one      *)
(* higher - and totalErrors is one higher if and only if the letter does   *)
(* not match.                                                              *)
(***************************************************************************)
C35_SkipsToNextCharacter ==
    [][\A letter \in PracticeLetters :
           HandlesInput(letter) =>
               /\ IF LastOfPhrase
                  THEN /\ practiceState'.currentCharIndex = 0
                       /\ practiceState'.currentPhraseIndex =
                              practiceState.currentPhraseIndex + 1
                  ELSE /\ practiceState'.currentCharIndex =
                              practiceState.currentCharIndex + 1
                       /\ practiceState'.currentPhraseIndex =
                              practiceState.currentPhraseIndex
               /\ practiceState'.totalErrors =
                      practiceState.totalErrors + IF letter = ExpectedCharacter THEN 0 ELSE 1
      ]_vars

\* the first phrase was typed with right and wrong letters and the second
\* phrase has been entered
C35_Witness ==
    /\ practiceState.currentPhraseIndex = 1
    /\ practiceState.currentCharIndex = 0
    /\ practiceState.totalErrors > 0
    /\ practiceState.totalErrors < practiceState.accepted

(***************************************************************************)
(* C36: a session is complete exactly when as many inputs were accepted as *)
(* its six normalized phrases have characters; finishSession has then run  *)
(* exactly once, totalErrors never exceeds that total, and every later     *)
(* input leaves currentPhraseIndex, currentCharIndex and totalErrors       *)
(* unchanged.                                                              *)
(***************************************************************************)
C36_SessionTerminates ==
    /\ [](practiceState.sessionPhrases # << >> =>
            LET total == TotalCharacters(practiceState.sessionPhrases)
            IN  /\ Len(practiceState.sessionPhrases) = PHRASES_PER_SESSION
                /\ practiceState.accepted <= total
                /\ practiceState.totalErrors <= practiceState.accepted
                /\ practiceState.sessionComplete <=> practiceState.accepted = total
                /\ practiceState.finished = IF practiceState.sessionComplete THEN 1 ELSE 0
                /\ practiceState.inputs < total => practiceState.accepted = practiceState.inputs)
    /\ [][\A letter \in PracticeLetters :
              (PracticeInput(letter) /\ practiceState.sessionComplete) =>
                  /\ practiceState'.currentPhraseIndex = practiceState.currentPhraseIndex
                  /\ practiceState'.currentCharIndex = practiceState.currentCharIndex
                  /\ practiceState'.totalErrors = practiceState.totalErrors
                  /\ practiceState'.finished = practiceState.finished
         ]_vars

\* a complete session with errors that has received an input since
C36_Witness ==
    /\ practiceState.sessionComplete
    /\ practiceState.totalErrors > 0
    /\ practiceState.inputs > practiceState.accepted

(***************************************************************************)
(* The progress percentage of the analytics: sendProgress and               *)
(* buildCourseMetric on the client (src/unnamed/part_000), the /analytics   *)
(* endpoint and normalizeCourseMetrics on the server                        *)
(* (src/api-service/server.js).                                             *)
(***************************************************************************)
\* the default of the parameter learnedThreshold of the client
learnedThreshold == 2

\* the threshold of the server
howManyCorrectAnswersToLearn == 2

\* largest absolute score of the progress maps explored (MetricSpec)
MaxMetricScore == 5

\* the progress maps explored: every map of integer scores over up to three
\* symbols, the empty map included
ProgressMaps ==
    UNION {[keys -> (-MaxMetricScore)..MaxMetricScore] : keys \in SUBSET {"e", "t", "a"}}

\* Object.values(progress).reduce(...): the sum of the scores
RECURSIVE sumOfValues(_)
sumOfValues(progress) ==
    IF DOMAIN progress = {} THEN 0
    ELSE LET k == CHOOSE key \in DOMAIN progress : TRUE
         IN  progress[k] + sumOfValues([key \in DOMAIN progress \ {k} |-> progress[key]])

max(a, b) == IF a >= b THEN a ELSE b
min(a, b) == IF a <= b THEN a ELSE b

\* calculateCourseProgressPercent of the client; Math.floor of the quotient
\* of two non-negative integers is their integer division
calculateCourseProgressPercent(progress, threshold) ==
    LET letters == Cardinality(DOMAIN progress)
        maxScore == letters * threshold
    IN  IF letters = 0 THEN 0
        ELSE IF maxScore = 0 THEN 0
        ELSE min(100, (max(0, sumOfValues(progress)) * 100) \div maxScore)

buildCourseMetric(progress, threshold) ==
    LET progressPercent == calculateCourseProgressPercent(progress, threshold)
    IN  [progress_percent |-> progressPercent,
         completed |-> progressPercent >= 100,
         item_count |-> Cardinality(DOMAIN progress)]

\* calculateProgressPercent without Math.max(0, ...)
calculateProgressPercentUnclamped(progress) ==
    LET noOfLettersInTheAlphabet == Cardinality(DOMAIN progress)
        hundredPercent == noOfLettersInTheAlphabet * howManyCorrectAnswersToLearn
    IN  IF noOfLettersInTheAlphabet = 0 THEN 0
        ELSE min(100, (sumOfValues(progress) * 100) \div hundredPercent)

\* calculateProgressPercent of the server
calculateProgressPercent(progress) ==
    LET noOfLettersInTheAlphabet == Cardinality(DOMAIN progress)
        hundredPercent == noOfLettersInTheAlphabet * howManyCorrectAnswersToLearn
    IN  IF noOfLettersInTheAlphabet = 0 THEN 0
        ELSE min(100, (max(0, sumOfValues(progress)) * 100) \div hundredPercent)

\* normalizeCourseMetrics, the alphabet entry: the percentage of the payload
\* when it carries one, else the one computed from the progress dump
normalizeCourseMetrics(courseMetrics, alphabetProgressDump) ==
    LET alphabetProgress ==
            IF courseMetrics # << >>
            THEN min(100, max(0, courseMetrics[1].progress_percent))
            ELSE calculateProgressPercent(alphabetProgressDump)
    IN  [progress_percent |-> alphabetProgress, completed |-> alphabetProgress >= 100]

\* sendProgress: the payload is built from localStorage.savedLetters
sendProgress ==
    /\ metrics.progress = << >> /\ metrics.courseMetrics = << >>
    /\ metrics' = [metrics EXCEPT
                       !.progress = saved,
                       !.courseMetrics = <<buildCourseMetric(saved, learnedThreshold)>>]
    /\ UNCHANGED <<gameSpaceVars, have_speech_assistive, have_audio, boardVars, titleVars,
                   practiceState>>

\* POST /analytics: the payload as sent, or as a client without
\* courseMetrics sends it
postAnalytics ==
    /\ metrics.courseMetrics # << >>
    /\ metrics.normalized = << >>
    /\ \E legacy \in BOOLEAN :
           metrics' = [metrics EXCEPT
                           !.legacy = legacy,
                           !.normalized =
                               <<normalizeCourseMetrics(
                                     IF legacy THEN << >> ELSE metrics.courseMetrics,
                                     metrics.progress)>>]
    /\ UNCHANGED <<gameSpaceVars, have_speech_assistive, have_audio, boardVars, titleVars,
                   practiceState>>

MetricInit ==
    /\ \E progress \in ProgressMaps : GameSpaceIdleWith(progress)
    /\ have_speech_assistive = TRUE
    /\ have_audio = TRUE
    /\ OutsideIdle

MetricNext == sendProgress \/ postAnalytics

MetricSpec == MetricInit /\ [][MetricNext]_vars

(***************************************************************************)
(* C37: for every progress map with integer scores the client's            *)
(* calculateCourseProgressPercent(progress, 2) and the server's            *)
(* calculateProgressPercent(progress) are the same integer of [0, 100]: 0  *)
(* for an empty map or a score total of 0 or less, 100 once the total is   *)
(* twice the number of symbols or more; it is the percentage of the        *)
(* client's metric and of the server's normalized metric.                  *)
(***************************************************************************)
C37_ClientAndServerPercentAgree ==
    LET client == calculateCourseProgressPercent(saved, 2)
        server == calculateProgressPercent(saved)
        total == sumOfValues(saved)
        symbols == Cardinality(DOMAIN saved)
    IN  /\ client = server
        /\ client \in 0..100
        /\ (symbols = 0 \/ total <= 0) => client = 0
        /\ (symbols > 0 /\ total >= 2 * symbols) => client = 100
        /\ metrics.courseMetrics # << >> =>
               /\ metrics.progress = saved
               /\ metrics.courseMetrics[1].progress_percent = client
        /\ metrics.normalized # << >> => metrics.normalized[1].progress_percent = server

\* a map with a negative score whose percentage, strictly between 0 and 100,
\* the server computed from the progress dump of a payload without metrics
C37_Witness ==
    /\ metrics.normalized # << >>
    /\ metrics.legacy
    /\ \E k \in DOMAIN saved : saved[k] < 0
    /\ metrics.normalized[1].progress_percent \in 1..99
    /\ metrics.normalized[1].progress_percent = metrics.courseMetrics[1].progress_percent

(***************************************************************************)
(* C38: the analytics report a course as completed (the client's           *)
(* buildCourseMetric and the server's normalizeCourseMetrics on the saved  *)
(* score map) only if every symbol of the course has a score at or above   *)
(* the learned threshold, which is what the completion gate                *)
(* checkAllLettersLearned counts.                                          *)
(***************************************************************************)
C38_CompletedOnlyWhenAllLearned ==
    LET metric == buildCourseMetric(saved, learnedThreshold)
        normalized == normalizeCourseMetrics(<<metric>>, saved)
    IN  (metric.completed \/ normalized.completed) => AllCourseLearned(saved)

====
